---------------------------- MODULE Spec2Model ----------------------------
(***************************************************************************)
(* A model of slicer-copilot's change application engine                   *)
(* (applyLlmChanges), the response adapter that feeds it                   *)
(* (validateChange) and the per-object override store                      *)
(* (makeObjectKey / readObjectOverride / ensureObjectOverride).            *)
(*                                                                         *)
(* JavaScript values are records [t, n, e, s]: t is the type tag, a number *)
(* is the dyadic rational n / 2^e (exact in IEEE doubles at the sizes used *)
(* here), a string is s.  Strings are atomic in the state; Spelling gives  *)
(* the characters of each one so that prefix tests, slicing, lower-casing  *)
(* and concatenation are computed on characters as the code computes them. *)
(***************************************************************************)
EXTENDS Integers, Sequences, FiniteSets, TLC

\* The number of changes one response carries at most.
MaxChanges == 2
MaxStoreOps == 3
\* The number of entries the changes array of one response carries at most.
MaxEntries == 2
MaxVariations == 2
MaxEdits == 1

\* The strings of vendor configurations and of canonical settings, each with
\* its characters.
VendorWords ==
    {<<"fan_speed_percent", <<"f", "a", "n", "_", "s", "p", "e", "e", "d", "_", "p", "e", "r", "c", "e", "n", "t">>>>,
     <<"wall_inner", <<"w", "a", "l", "l", "_", "i", "n", "n", "e", "r">>>>,
     <<"infill", <<"i", "n", "f", "i", "l", "l">>>>,
     <<"first_layer", <<"f", "i", "r", "s", "t", "_", "l", "a", "y", "e", "r">>>>,
     <<"layer_height_mm", <<"l", "a", "y", "e", "r", "_", "h", "e", "i", "g", "h", "t", "_", "m", "m">>>>,
     <<"layer_height", <<"l", "a", "y", "e", "r", "_", "h", "e", "i", "g", "h", "t">>>>,
     <<"initial_layer_print_height", <<"i", "n", "i", "t", "i", "a", "l", "_", "l", "a", "y", "e", "r", "_", "p", "r", "i", "n", "t", "_", "h", "e", "i", "g", "h", "t">>>>,
     <<"wall_loops", <<"w", "a", "l", "l", "_", "l", "o", "o", "p", "s">>>>,
     <<"top_shell_layers", <<"t", "o", "p", "_", "s", "h", "e", "l", "l", "_", "l", "a", "y", "e", "r", "s">>>>,
     <<"bottom_shell_layers", <<"b", "o", "t", "t", "o", "m", "_", "s", "h", "e", "l", "l", "_", "l", "a", "y", "e", "r", "s">>>>,
     <<"sparse_infill_density", <<"s", "p", "a", "r", "s", "e", "_", "i", "n", "f", "i", "l", "l", "_", "d", "e", "n", "s", "i", "t", "y">>>>,
     <<"sparse_infill_pattern", <<"s", "p", "a", "r", "s", "e", "_", "i", "n", "f", "i", "l", "l", "_", "p", "a", "t", "t", "e", "r", "n">>>>,
     <<"nozzle_temperature", <<"n", "o", "z", "z", "l", "e", "_", "t", "e", "m", "p", "e", "r", "a", "t", "u", "r", "e">>>>,
     <<"nozzle_temperature_initial_layer", <<"n", "o", "z", "z", "l", "e", "_", "t", "e", "m", "p", "e", "r", "a", "t", "u", "r", "e", "_", "i", "n", "i", "t", "i", "a", "l", "_", "l", "a", "y", "e", "r">>>>,
     <<"eng_plate_temp", <<"e", "n", "g", "_", "p", "l", "a", "t", "e", "_", "t", "e", "m", "p">>>>,
     <<"hot_plate_temp", <<"h", "o", "t", "_", "p", "l", "a", "t", "e", "_", "t", "e", "m", "p">>>>,
     <<"fan_max_speed", <<"f", "a", "n", "_", "m", "a", "x", "_", "s", "p", "e", "e", "d">>>>,
     <<"first_x_layer_fan_speed", <<"f", "i", "r", "s", "t", "_", "x", "_", "l", "a", "y", "e", "r", "_", "f", "a", "n", "_", "s", "p", "e", "e", "d">>>>,
     <<"enable_support", <<"e", "n", "a", "b", "l", "e", "_", "s", "u", "p", "p", "o", "r", "t">>>>,
     <<"outer_wall_speed", <<"o", "u", "t", "e", "r", "_", "w", "a", "l", "l", "_", "s", "p", "e", "e", "d">>>>,
     <<"inner_wall_speed", <<"i", "n", "n", "e", "r", "_", "w", "a", "l", "l", "_", "s", "p", "e", "e", "d">>>>,
     <<"sparse_infill_speed", <<"s", "p", "a", "r", "s", "e", "_", "i", "n", "f", "i", "l", "l", "_", "s", "p", "e", "e", "d">>>>,
     <<"initial_layer_speed", <<"i", "n", "i", "t", "i", "a", "l", "_", "l", "a", "y", "e", "r", "_", "s", "p", "e", "e", "d">>>>,
     <<"brim_width", <<"b", "r", "i", "m", "_", "w", "i", "d", "t", "h">>>>,
     <<"raft_layers", <<"r", "a", "f", "t", "_", "l", "a", "y", "e", "r", "s">>>>,
     <<"nozzle_diameter", <<"n", "o", "z", "z", "l", "e", "_", "d", "i", "a", "m", "e", "t", "e", "r">>>>,
     <<"filament_type", <<"f", "i", "l", "a", "m", "e", "n", "t", "_", "t", "y", "p", "e">>>>,
     <<"default_print_profile", <<"d", "e", "f", "a", "u", "l", "t", "_", "p", "r", "i", "n", "t", "_", "p", "r", "o", "f", "i", "l", "e">>>>,
     <<"compatible_printers", <<"c", "o", "m", "p", "a", "t", "i", "b", "l", "e", "_", "p", "r", "i", "n", "t", "e", "r", "s">>>>,
     <<"travel_speed", <<"t", "r", "a", "v", "e", "l", "_", "s", "p", "e", "e", "d">>>>,
     <<"fan_min_speed", <<"f", "a", "n", "_", "m", "i", "n", "_", "s", "p", "e", "e", "d">>>>,
     <<"printer_model", <<"p", "r", "i", "n", "t", "e", "r", "_", "m", "o", "d", "e", "l">>>>,
     <<"machine_start_gcode", <<"m", "a", "c", "h", "i", "n", "e", "_", "s", "t", "a", "r", "t", "_", "g", "c", "o", "d", "e">>>>,
     <<"different_settings_to_system", <<"d", "i", "f", "f", "e", "r", "e", "n", "t", "_", "s", "e", "t", "t", "i", "n", "g", "s", "_", "t", "o", "_", "s", "y", "s", "t", "e", "m">>>>,
     <<"2", <<"2">>>>,
     <<"3", <<"3">>>>,
     <<"4", <<"4">>>>,
     <<"15", <<"1", "5">>>>,
     <<"20", <<"2", "0">>>>,
     <<"30", <<"3", "0">>>>,
     <<"40", <<"4", "0">>>>,
     <<"60", <<"6", "0">>>>,
     <<"70", <<"7", "0">>>>,
     <<"75", <<"7", "5">>>>,
     <<"80", <<"8", "0">>>>,
     <<"120", <<"1", "2", "0">>>>,
     <<"150", <<"1", "5", "0">>>>,
     <<"215", <<"2", "1", "5">>>>,
     <<"220", <<"2", "2", "0">>>>,
     <<"225", <<"2", "2", "5">>>>,
     <<"230", <<"2", "3", "0">>>>,
     <<"0.2", <<"0", ".", "2">>>>,
     <<"0.4", <<"0", ".", "4">>>>,
     <<"15%", <<"1", "5", "%">>>>,
     <<"20%", <<"2", "0", "%">>>>,
     <<"abc", <<"a", "b", "c">>>>,
     <<"PLA", <<"P", "L", "A">>>>,
     <<"PETG", <<"P", "E", "T", "G">>>>,
     <<"none", <<"n", "o", "n", "e">>>>,
     <<"brim", <<"b", "r", "i", "m">>>>,
     <<"raft", <<"r", "a", "f", "t">>>>,
     <<"true", <<"t", "r", "u", "e">>>>,
     <<"false", <<"f", "a", "l", "s", "e">>>>,
     <<"G28", <<"G", "2", "8">>>>,
     <<"120,150", <<"1", "2", "0", ",", "1", "5", "0">>>>,
     <<"220,225", <<"2", "2", "0", ",", "2", "2", "5">>>>,
     <<"PLA,PETG", <<"P", "L", "A", ",", "P", "E", "T", "G">>>>,
     <<"0.20mm Standard", <<"0", ".", "2", "0", "m", "m", " ", "S", "t", "a", "n", "d", "a", "r", "d">>>>,
     <<" wall_loops ; layer_height", <<" ", "w", "a", "l", "l", "_", "l", "o", "o", "p", "s", " ", ";", " ", "l", "a", "y", "e", "r", "_", "h", "e", "i", "g", "h", "t">>>>,
     <<"wall_loops;wall_loops", <<"w", "a", "l", "l", "_", "l", "o", "o", "p", "s", ";", "w", "a", "l", "l", "_", "l", "o", "o", "p", "s">>>>,
     <<"nozzle_temp_c", <<"n", "o", "z", "z", "l", "e", "_", "t", "e", "m", "p", "_", "c">>>>,
     <<"bed_temp_c", <<"b", "e", "d", "_", "t", "e", "m", "p", "_", "c">>>>,
     <<"infill_density_percent", <<"i", "n", "f", "i", "l", "l", "_", "d", "e", "n", "s", "i", "t", "y", "_", "p", "e", "r", "c", "e", "n", "t">>>>,
     <<"supports_enabled", <<"s", "u", "p", "p", "o", "r", "t", "s", "_", "e", "n", "a", "b", "l", "e", "d">>>>,
     <<"adhesion_type", <<"a", "d", "h", "e", "s", "i", "o", "n", "_", "t", "y", "p", "e">>>>,
     <<"Other", <<"O", "t", "h", "e", "r">>>>,
     <<"X1", <<"X", "1">>>>,
     <<"50", <<"5", "0">>>>,
     <<"240", <<"2", "4", "0">>>>,
     <<"X1C", <<"X", "1", "C">>>>}

VendorSpelling ==
    [s \in {word[1] : word \in VendorWords} |->
        (CHOOSE word \in VendorWords : word[1] = s)[2]]

(***************************************************************************)
(* Strings                                                                 *)
(***************************************************************************)
Spelling ==
    ("wall_line_count" :> <<"w", "a", "l", "l", "_", "l", "i", "n", "e", "_", "c", "o", "u", "n", "t">>)
    @@ ("infill_pattern" :> <<"i", "n", "f", "i", "l", "l", "_", "p", "a", "t", "t", "e", "r", "n">>)
    @@ ("speeds.wall_outer" :> <<"s", "p", "e", "e", "d", "s", ".", "w", "a", "l", "l", "_", "o", "u", "t", "e", "r">>)
    @@ ("speeds.wall_outer.max" :> <<"s", "p", "e", "e", "d", "s", ".", "w", "a", "l", "l", "_", "o", "u", "t", "e", "r", ".", "m", "a", "x">>)
    @@ ("speeds" :> <<"s", "p", "e", "e", "d", "s">>)
    @@ ("speeds." :> <<"s", "p", "e", "e", "d", "s", ".">>)
    @@ ("not_a_real_key" :> <<"n", "o", "t", "_", "a", "_", "r", "e", "a", "l", "_", "k", "e", "y">>)
    @@ ("constructor" :> <<"c", "o", "n", "s", "t", "r", "u", "c", "t", "o", "r">>)
    @@ ("wall_outer" :> <<"w", "a", "l", "l", "_", "o", "u", "t", "e", "r">>)
    @@ ("Wall-Line-Count" :> <<"W", "a", "l", "l", "-", "L", "i", "n", "e", "-", "C", "o", "u", "n", "t">>)
    @@ ("Cube" :> <<"C", "u", "b", "e">>)
    @@ ("Benchy" :> <<"B", "e", "n", "c", "h", "y">>)
    @@ ("Ghost" :> <<"G", "h", "o", "s", "t">>)
    @@ ("grid" :> <<"g", "r", "i", "d">>)
    @@ ("plateIndex" :> <<"p", "l", "a", "t", "e", "I", "n", "d", "e", "x">>)
    @@ ("objectName" :> <<"o", "b", "j", "e", "c", "t", "N", "a", "m", "e">>)
    @@ ("object" :> <<"o", "b", "j", "e", "c", "t">>)
    @@ ("global" :> <<"g", "l", "o", "b", "a", "l">>)
    @@ ("absolute" :> <<"a", "b", "s", "o", "l", "u", "t", "e">>)
    @@ ("relative" :> <<"r", "e", "l", "a", "t", "i", "v", "e">>)
    @@ ("::" :> <<":", ":">>)
    @@ ("0" :> <<"0">>)
    @@ ("1" :> <<"1">>)
    @@ ("5" :> <<"5">>)
    @@ ("7" :> <<"7">>)
    @@ ("" :> <<>>)
    @@ VendorSpelling

Chars(s) == Spelling[s]

\* The string with the given characters.
Intern(cs) == CHOOSE s \in DOMAIN Spelling : Spelling[s] = cs

UpperLetters ==
    <<"A", "B", "C", "D", "E", "F", "G", "H", "I", "J", "K", "L", "M",
      "N", "O", "P", "Q", "R", "S", "T", "U", "V", "W", "X", "Y", "Z">>

LowerLetters ==
    <<"a", "b", "c", "d", "e", "f", "g", "h", "i", "j", "k", "l", "m",
      "n", "o", "p", "q", "r", "s", "t", "u", "v", "w", "x", "y", "z">>

Digits == {"0", "1", "2", "3", "4", "5", "6", "7", "8", "9"}

\* String.prototype.toLowerCase on one character.
LowerChar(c) ==
    IF \E i \in 1..26 : UpperLetters[i] = c
    THEN LowerLetters[CHOOSE i \in 1..26 : UpperLetters[i] = c]
    ELSE c

\* The character class [a-z0-9].
IsLowerAlnum(c) == c \in Digits \/ \E i \in 1..26 : LowerLetters[i] = c

StartsWith(cs, prefix) ==
    /\ Len(cs) >= Len(prefix)
    /\ SubSeq(cs, 1, Len(prefix)) = prefix

\* cs.split(".")[0]: the characters before the first dot.
RECURSIVE FirstSegment(_)
FirstSegment(cs) ==
    IF cs = <<>> \/ Head(cs) = "." THEN <<>>
    ELSE <<Head(cs)>> \o FirstSegment(Tail(cs))

\* The characters the strings of the model are made of, in the order of
\* their UTF-16 code units.
CharOrder ==
    <<" ", "%", ",", "-", ".", "0", "1", "2", "3", "4", "5", "6", "7", "8", "9",
      ":", ";", "A", "B", "C", "D", "E", "F", "G", "H", "I", "J", "K", "L", "M",
      "N", "O", "P", "Q", "R", "S", "T", "U", "V", "W", "X", "Y", "Z", "_",
      "a", "b", "c", "d", "e", "f", "g", "h", "i", "j", "k", "l", "m",
      "n", "o", "p", "q", "r", "s", "t", "u", "v", "w", "x", "y", "z">>

CodeUnit(c) == CHOOSE i \in 1..Len(CharOrder) : CharOrder[i] = c

\* a < b as Array.prototype.sort orders strings: by code units, a proper
\* prefix first.
RECURSIVE CharsLess(_, _)
CharsLess(a, b) ==
    IF b = <<>> THEN FALSE
    ELSE IF a = <<>> THEN TRUE
    ELSE IF Head(a) # Head(b) THEN CodeUnit(Head(a)) < CodeUnit(Head(b))
    ELSE CharsLess(Tail(a), Tail(b))

\* cs.split(sep): the pieces between the separators, in order.
RECURSIVE Split(_, _)
Split(cs, sep) ==
    IF \A i \in 1..Len(cs) : cs[i] # sep THEN <<cs>>
    ELSE LET at == CHOOSE i \in 1..Len(cs) :
                      cs[i] = sep /\ \A j \in 1..(i - 1) : cs[j] # sep
         IN <<SubSeq(cs, 1, at - 1)>> \o Split(SubSeq(cs, at + 1, Len(cs)), sep)

\* pieces.join(sep)
RECURSIVE Join(_, _)
Join(pieces, sep) ==
    IF pieces = <<>> THEN <<>>
    ELSE IF Len(pieces) = 1 THEN pieces[1]
    ELSE pieces[1] \o <<sep>> \o Join(Tail(pieces), sep)

\* cs.trim()
RECURSIVE Trim(_)
Trim(cs) ==
    IF cs # <<>> /\ Head(cs) = " " THEN Trim(Tail(cs))
    ELSE IF cs # <<>> /\ cs[Len(cs)] = " " THEN Trim(SubSeq(cs, 1, Len(cs) - 1))
    ELSE cs

(***************************************************************************)
(* Values                                                                  *)
(***************************************************************************)
RECURSIVE Dyadic(_, _)
\* n / 2^e in lowest terms.
Dyadic(n, e) ==
    IF e > 0 /\ n % 2 = 0 THEN Dyadic(n \div 2, e - 1)
    ELSE [t |-> "number", n |-> n, e |-> e, s |-> ""]

VNum(n) == Dyadic(n, 0)
VStr(s) == [t |-> "string", n |-> 0, e |-> 0, s |-> s]
VBool(b) == [t |-> "boolean", n |-> IF b THEN 1 ELSE 0, e |-> 0, s |-> ""]
VNull == [t |-> "null", n |-> 0, e |-> 0, s |-> ""]
Undefined == [t |-> "undefined", n |-> 0, e |-> 0, s |-> ""]
\* A reference to the container's own speeds object (its entries are in sp).
VSpeedsObject == [t |-> "object", n |-> 0, e |-> 0, s |-> "speeds"]
\* A function inherited from Object.prototype (or a primitive's prototype).
VInherited(key) == [t |-> "function", n |-> 0, e |-> 0, s |-> key]

Pow2(k) == IF k = 0 THEN 1 ELSE IF k = 1 THEN 2 ELSE IF k = 2 THEN 4
           ELSE IF k = 3 THEN 8 ELSE IF k = 4 THEN 16 ELSE IF k = 5 THEN 32
           ELSE IF k = 6 THEN 64 ELSE IF k = 7 THEN 128 ELSE 256

\* a + b on numbers.
NumAdd(a, b) ==
    LET e == IF a.e > b.e THEN a.e ELSE b.e
    IN Dyadic(a.n * Pow2(e - a.e) + b.n * Pow2(e - b.e), e)

\* a * b on numbers.
NumMul(a, b) == Dyadic(a.n * b.n, a.e + b.e)

\* typeof v === "number"
IsNumber(v) == v.t = "number"

\* v is null or undefined (the left side of ?? and ?. gives way).
IsNullish(v) == v.t \in {"null", "undefined"}

\* a ?? b
Coalesce(a, b) == IF IsNullish(a) THEN b ELSE a

\* !v is false
Truthy(v) ==
    CASE v.t \in {"null", "undefined"} -> FALSE
      [] v.t = "number" -> v.n # 0
      [] v.t = "string" -> v.s # ""
      [] v.t = "boolean" -> v.n = 1
      [] OTHER -> TRUE

\* a === b.  Two object references are the same only when they are the same
\* object; a value that came out of the response is never one of the model's.
StrictEq(a, b) == a = b

DigitChars == <<"0", "1", "2", "3", "4", "5", "6", "7", "8", "9">>

\* String(v), as characters, for the values that reach it: strings and the
\* small non-negative integers used as plate indices and parameters.
ToChars(v) ==
    IF v.t = "string" THEN Chars(v.s) ELSE <<DigitChars[v.n + 1]>>

(***************************************************************************)
(* Vendor configuration values: strings, numbers and arrays of them.       *)
(***************************************************************************)
\* The element of a set of one element: Only({F(x) : x \in {e}}) is F(e) with
\* e computed once.
Only(S) == CHOOSE x \in S : TRUE

\* An array with the given elements.
VArray(items) == [t |-> "array", n |-> 0, e |-> 0, s |-> "", items |-> items]

\* Array.isArray(v)
IsArray(v) == v.t = "array"

\* The number NaN.
NaN == [t |-> "number", n |-> 0, e |-> 0, s |-> "NaN"]

Pow(b, k) == IF k = 0 THEN 1 ELSE IF k = 1 THEN b ELSE IF k = 2 THEN b * b
             ELSE IF k = 3 THEN b * b * b ELSE b * b * b * b

IsDigits(cs) == cs # <<>> /\ \A i \in 1..Len(cs) : cs[i] \in Digits

DigitValue(c) == (CHOOSE i \in 1..10 : DigitChars[i] = c) - 1

\* The natural number a run of decimal digits denotes.
RECURSIVE DigitsValue(_)
DigitsValue(cs) ==
    IF cs = <<>> THEN 0
    ELSE 10 * DigitsValue(SubSeq(cs, 1, Len(cs) - 1)) + DigitValue(cs[Len(cs)])

\* The decimal digits of a natural number.
RECURSIVE NatChars(_)
NatChars(k) ==
    IF k < 10 THEN <<DigitChars[k + 1]>>
    ELSE NatChars(k \div 10) \o <<DigitChars[(k % 10) + 1]>>

RECURSIVE StripTrailingZeros(_)
StripTrailingZeros(cs) ==
    IF cs # <<>> /\ cs[Len(cs)] = "0"
    THEN StripTrailingZeros(SubSeq(cs, 1, Len(cs) - 1))
    ELSE cs

\* The number written as whole.fraction in decimal.  A value that is a
\* multiple of a power of one half is kept as that; any other decimal is the
\* number named by its shortest decimal spelling.
Decimal(negative, whole, fraction) ==
    LET f == StripTrailingZeros(fraction)
        k == Len(f)
        m == DigitsValue(whole \o f)
        sign == IF negative THEN -1 ELSE 1
    IN IF m % Pow(5, k) = 0 THEN Dyadic(sign * (m \div Pow(5, k)), k)
       ELSE [t |-> "number", n |-> 0, e |-> 0,
             s |-> Intern((IF negative THEN <<"-">> ELSE <<>>)
                          \o NatChars(DigitsValue(whole)) \o <<".">> \o f)]

\* Number.prototype.toString for the numbers of the model.
NumberToChars(v) ==
    IF v.s # "" THEN Chars(v.s)
    ELSE LET m == (IF v.n < 0 THEN -v.n ELSE v.n) * Pow(5, v.e)
             ds == NatChars(m)
             padded == [i \in 1..(IF Len(ds) > v.e THEN 0 ELSE v.e + 1 - Len(ds))
                          |-> "0"] \o ds
             whole == SubSeq(padded, 1, Len(padded) - v.e)
             fraction == SubSeq(padded, Len(padded) - v.e + 1, Len(padded))
         IN (IF v.n < 0 THEN <<"-">> ELSE <<>>) \o whole
            \o (IF v.e > 0 THEN <<".">> \o fraction ELSE <<>>)

\* String(v) / v.toString(), as characters.  An array gives its elements
\* joined by commas, a null or undefined element giving nothing.
RECURSIVE StringChars(_)
StringChars(v) ==
    CASE v.t = "string" -> IF "cs" \in DOMAIN v THEN v.cs ELSE Chars(v.s)
      [] v.t = "number" -> NumberToChars(v)
      [] v.t = "boolean" -> IF v.n = 1 THEN Chars("true") ELSE Chars("false")
      [] v.t = "array" ->
            Join([i \in 1..Len(v.items) |->
                     IF IsNullish(v.items[i]) THEN <<>>
                     ELSE StringChars(v.items[i])], ",")
      [] OTHER -> Chars(v.t)

\* The string with the given characters: one of the strings of the Spelling
\* table where it is one, and otherwise a string that carries its characters.
StringOf(cs) ==
    IF \E s \in DOMAIN Spelling : Spelling[s] = cs THEN VStr(Intern(cs))
    ELSE [t |-> "string", n |-> 0, e |-> 0, s |-> "(spelled)", cs |-> cs]

\* value.toString()
ToStringValue(v) == StringOf(StringChars(v))

\* Number(cs) on a string: surrounding blanks are dropped, the empty string
\* is 0, a decimal literal is its value and anything else is NaN.
NumberOfChars(cs) ==
    LET t == Trim(cs)
        negative == t # <<>> /\ Head(t) = "-"
        body == IF t # <<>> /\ Head(t) \in {"-", "+"} THEN Tail(t) ELSE t
        parts == Split(body, ".")
    IN IF t = <<>> THEN VNum(0)
       ELSE IF Len(parts) = 1 /\ IsDigits(parts[1])
            THEN Decimal(negative, parts[1], <<>>)
       ELSE IF /\ Len(parts) = 2
               /\ parts[1] = <<>> \/ IsDigits(parts[1])
               /\ parts[2] = <<>> \/ IsDigits(parts[2])
               /\ parts[1] # <<>> \/ parts[2] # <<>>
            THEN Decimal(negative, parts[1], parts[2])
       ELSE NaN

\* Number(v)
RECURSIVE ToNumber(_)
ToNumber(v) ==
    CASE v.t = "number" -> v
      [] v.t = "string" -> NumberOfChars(StringChars(v))
      [] v.t = "boolean" -> VNum(v.n)
      [] v.t = "null" -> VNum(0)
      [] v.t = "array" -> NumberOfChars(StringChars(v))
      [] OTHER -> NaN

\* The longest prefix of cs that is a decimal literal, as parseFloat reads it.
RECURSIVE DigitPrefix(_)
DigitPrefix(cs) ==
    IF cs # <<>> /\ Head(cs) \in Digits
    THEN <<Head(cs)>> \o DigitPrefix(Tail(cs))
    ELSE <<>>

\* Number.parseFloat(cs)
ParseFloat(cs) ==
    LET t == Trim(cs)
        negative == t # <<>> /\ Head(t) = "-"
        body == IF t # <<>> /\ Head(t) \in {"-", "+"} THEN Tail(t) ELSE t
        whole == DigitPrefix(body)
        rest == SubSeq(body, Len(whole) + 1, Len(body))
        fraction == IF rest # <<>> /\ Head(rest) = "."
                    THEN DigitPrefix(Tail(rest)) ELSE <<>>
    IN IF whole = <<>> /\ fraction = <<>> THEN NaN
       ELSE Decimal(negative, whole, fraction)

(***************************************************************************)
(* Objects: a container is a settings object (the global process settings  *)
(* or one override record).  own maps its own property names to values;    *)
(* when own.speeds is VSpeedsObject, sp holds the entries of that nested   *)
(* object.                                                                 *)
(***************************************************************************)
EmptyMap == [k \in {} |-> Undefined]

\* Property names every object inherits from Object.prototype.
InheritedKeys == {"constructor"}

\* container[key]
Get(container, key) ==
    IF key \in DOMAIN container.own THEN container.own[key]
    ELSE IF key \in InheritedKeys THEN VInherited(key)
    ELSE Undefined

\* container.speeds?.[key]
SpeedsGet(container, key) ==
    LET speeds == Get(container, "speeds")
    IN IF IsNullish(speeds) THEN Undefined
       ELSE IF speeds = VSpeedsObject /\ key \in DOMAIN container.sp
            THEN container.sp[key]
       ELSE IF key \in InheritedKeys THEN VInherited(key)
       ELSE Undefined

\* container[key] = value
Put(container, key, value) ==
    [container EXCEPT
        !.own = (key :> value) @@ container.own,
        !.sp = IF key = "speeds" THEN EmptyMap ELSE container.sp]

\* const speeds = container.speeds ? {...container.speeds} : {};
\* speeds[key] = value; container.speeds = speeds
SpeedsPut(container, key, value) ==
    LET old == IF Get(container, "speeds") = VSpeedsObject
               THEN container.sp ELSE EmptyMap
    IN [own |-> ("speeds" :> VSpeedsObject) @@ container.own,
        sp |-> (key :> value) @@ old]

(***************************************************************************)
(* utils/objectOverrides.js                                                *)
(***************************************************************************)
\* A key built from the name alone, whatever the plate.
makeObjectKey_NameOnly(objectName, plateIndex) ==
    ToChars(Coalesce(objectName, VStr("object")))

\* Store keys are kept as their characters.
makeObjectKey(objectName, plateIndex) ==
    LET name == Coalesce(objectName, VStr("object"))
    IN IF IsNullish(plateIndex) THEN ToChars(name)
       ELSE ToChars(plateIndex) \o Chars("::") \o ToChars(name)

NewOverride(objectName, plateIndex) ==
    [own |-> ("plateIndex" :> plateIndex) @@ ("objectName" :> objectName),
     sp |-> EmptyMap]

\* overrides[key] is truthy: a record of the store, or a function the store
\* object inherits under that name.
HasOverride(overrides, key) ==
    \/ key \in DOMAIN overrides
    \/ \E k \in InheritedKeys : Chars(k) = key

\* overrides[key]: a record of the store (found), else what the store object
\* inherits under that name (inherited), else undefined.
readObjectOverride(overrides, objectName, plateIndex) ==
    LET key == makeObjectKey(objectName, plateIndex)
    IN IF key \in DOMAIN overrides
       THEN [found |-> TRUE, inherited |-> FALSE, record |-> overrides[key]]
       ELSE [found |-> FALSE,
             inherited |-> \E k \in InheritedKeys : Chars(k) = key,
             record |-> NewOverride(Undefined, Undefined)]

\* The store after ensureObjectOverride; the record it returns is the one
\* under makeObjectKey(objectName, plateIndex).
ensureObjectOverride(overrides, objectName, plateIndex) ==
    LET key == makeObjectKey(objectName, plateIndex)
    IN IF ~HasOverride(overrides, key)
       THEN (key :> NewOverride(objectName, plateIndex)) @@ overrides
       ELSE overrides

(***************************************************************************)
(* apply/changes.js: the user-modified-settings lookup                     *)
(***************************************************************************)
\* String(key).toLowerCase().replace(/[^a-z0-9]/g, ""), on characters.
normalizeSettingKey(cs) ==
    SelectSeq([i \in 1..Len(cs) |-> LowerChar(cs[i])], IsLowerAlnum)

\* The entries that survive `if (!entry) continue`.
KeptEntries(userModifiedSettings) ==
    {userModifiedSettings[i] : i \in
        {j \in 1..Len(userModifiedSettings) : Truthy(userModifiedSettings[j])}}

buildUserModifiedLookup(userModifiedSettings) ==
    [raw |-> {ToChars(entry) : entry \in KeptEntries(userModifiedSettings)},
     normalized |-> {normalizeSettingKey(ToChars(entry)) :
                        entry \in KeptEntries(userModifiedSettings)}]

\* A lookup that knows exact spellings only.
isUserSettingLocked_ExactOnly(parameter, lookup) ==
    parameter.t = "string" /\ Chars(parameter.s) \in lookup.raw

isUserSettingLocked(parameter, lookup) ==
    IF lookup.raw = {} THEN FALSE
    ELSE IF parameter.t = "string" /\ Chars(parameter.s) \in lookup.raw THEN TRUE
    ELSE normalizeSettingKey(ToChars(parameter)) \in lookup.normalized

(***************************************************************************)
(* apply/changes.js: parameter resolution and value computation            *)
(***************************************************************************)
SPEEDS_PARAMETER_PREFIX == "speeds."

\* parameter.startsWith is not a function unless parameter is a string.
ParameterThrows(parameter) == parameter.t # "string"

\* [isSpeed, key]: key is the speeds sub-key when the parameter has the prefix.
parseSpeedKey(parameter) ==
    LET cs == Chars(parameter.s)
        prefix == Chars(SPEEDS_PARAMETER_PREFIX)
    IN IF ~StartsWith(cs, prefix) THEN [isSpeed |-> FALSE, key |-> ""]
       ELSE [isSpeed |-> TRUE,
             key |-> Intern(FirstSegment(SubSeq(cs, Len(prefix) + 1, Len(cs))))]

\* resolveParameter(container, parameter).currentValue
CurrentValue(container, parameter) ==
    LET speedKey == parseSpeedKey(parameter)
    IN IF speedKey.isSpeed THEN SpeedsGet(container, speedKey.key)
       ELSE Get(container, parameter.s)

\* The container after resolveParameter(container, parameter).setter(value)
Setter(container, parameter, value) ==
    LET speedKey == parseSpeedKey(parameter)
    IN IF speedKey.isSpeed THEN SpeedsPut(container, speedKey.key, value)
       ELSE Put(container, parameter.s, value)

Warning(key, parameter, object) ==
    [key |-> key, parameter |-> parameter, object |-> object]

\* A relative change read as a plain factor: c * d instead of c + c * d.
computeNewValue_Factor(currentValue, change) ==
    IF change.changeType = VStr("relative")
    THEN IF ~IsNumber(currentValue) \/ ~IsNumber(change.newValue)
         THEN [value |-> currentValue, warned |-> TRUE]
         ELSE [value |-> NumMul(currentValue, change.newValue), warned |-> FALSE]
    ELSE [value |-> change.newValue, warned |-> FALSE]

\* A relative change of a value that is no number warned about and then
\* made as if absolute.
computeNewValue_WarnAndSet(currentValue, change) ==
    IF change.changeType = VStr("relative")
    THEN IF ~IsNumber(currentValue) \/ ~IsNumber(change.newValue)
         THEN [value |-> change.newValue, warned |-> TRUE]
         ELSE [value |-> NumAdd(currentValue, NumMul(currentValue, change.newValue)),
               warned |-> FALSE]
    ELSE [value |-> change.newValue, warned |-> FALSE]

\* [value, warned]: warned when the relative-change warning is pushed.
computeNewValue(currentValue, change) ==
    IF change.changeType = VStr("relative")
    THEN IF ~IsNumber(currentValue) \/ ~IsNumber(change.newValue)
         THEN [value |-> currentValue, warned |-> TRUE]
         ELSE [value |-> NumAdd(currentValue, NumMul(currentValue, change.newValue)),
               warned |-> FALSE]
    ELSE [value |-> change.newValue, warned |-> FALSE]

RelativeWarnings(computed, change) ==
    IF computed.warned
    THEN <<Warning("relativeChangeTypeWarning", change.parameter, Undefined)>>
    ELSE <<>>

NoTarget == [present |-> FALSE, objectName |-> Undefined, name |-> Undefined,
             plateIndex |-> Undefined]

formatDiff(change, from, to, scope, target) ==
    [scope |-> scope, target |-> target, parameter |-> change.parameter,
     from |-> from, to |-> to, reason |-> Coalesce(change.reason, VStr(""))]

\* What one call of applySingleChange leaves behind: the model, the warnings
\* pushed, the diff returned (none: the empty sequence), whether it threw, and
\* the branch it took.
Outcome(updated, pushed, diff, branch) ==
    [updated |-> updated, pushed |-> pushed, diff |-> diff, branch |-> branch]

applyGlobalChange(updated, change) ==
    IF ParameterThrows(change.parameter)
    THEN Outcome(updated, <<>>, <<>>, "threw")
    ELSE
    LET globalProcess == updated.globalProcess
        currentValue == CurrentValue(globalProcess, change.parameter)
        computed == computeNewValue(currentValue, change)
        proposed == computed.value
    IN IF currentValue = Undefined
       THEN Outcome(updated,
                    <<Warning("unknownParameterWarning", change.parameter, Undefined)>>,
                    <<>>, "unknown")
       ELSE IF StrictEq(proposed, currentValue)
       THEN Outcome(updated, RelativeWarnings(computed, change), <<>>,
                    IF computed.warned THEN "relative" ELSE "noop")
       ELSE Outcome([updated EXCEPT !.globalProcess =
                        Setter(globalProcess, change.parameter, proposed)],
                    RelativeWarnings(computed, change),
                    <<formatDiff(change, currentValue, proposed, "global", NoTarget)>>,
                    "applied")

resolveObjectTarget(change) ==
    LET target == change.target
    IN [objectName |-> Coalesce(target.objectName,
                                Coalesce(target.name, change.parameter)),
        plateIndex |-> Coalesce(target.plateIndex, VNull)]

\* plate.objects.some((obj) => obj.name === objectName)
PlateHasObject(plate, objectName) ==
    \E k \in 1..Len(plate.objects) : StrictEq(plate.objects[k].name, objectName)

PlateMatches(plate, objectName, plateIndex) ==
    /\ ~(plateIndex # VNull /\ ~StrictEq(plate.index, plateIndex))
    /\ PlateHasObject(plate, objectName)

\* The position in plates of the plate plates.find returns; 0 when it returns
\* undefined.
findPlate(plates, objectName, plateIndex) ==
    LET matching == {p \in 1..Len(plates) :
                        PlateMatches(plates[p], objectName, plateIndex)}
    IN IF matching = {} THEN 0
       ELSE CHOOSE p \in matching : \A q \in matching : p <= q

NoSettings == [has |-> FALSE, own |-> EmptyMap]

\* syncPlateOverride writing the value into every object of the plate.
syncPlateOverride_EveryObject(plate, objectName, parameter, value) ==
    [plate EXCEPT !.objects =
        [k \in 1..Len(plate.objects) |->
            [plate.objects[k] EXCEPT !.settings =
                [has |-> TRUE,
                 own |-> (parameter.s :> value) @@
                         (IF @.has THEN @.own ELSE EmptyMap)]]]]

\* The plate after syncPlateOverride({plate, objectName, parameter, value}).
syncPlateOverride(plate, objectName, parameter, value) ==
    LET found == {k \in 1..Len(plate.objects) :
                     StrictEq(plate.objects[k].name, objectName)}
    IN IF found = {} THEN plate
       ELSE LET k == CHOOSE a \in found : \A b \in found : a <= b
                settings == plate.objects[k].settings
            IN [plate EXCEPT !.objects[k].settings =
                   [has |-> TRUE,
                    own |-> (parameter.s :> value) @@
                            (IF settings.has THEN settings.own ELSE EmptyMap)]]

applyObjectChange(updated, change) ==
    LET resolved == resolveObjectTarget(change)
        targetName == resolved.objectName
        p == findPlate(updated.plates, targetName, resolved.plateIndex)
    IN IF p = 0
       THEN Outcome(updated,
                    <<Warning("objectNotFoundWarning", change.parameter, targetName)>>,
                    <<>>, "notfound")
       ELSE
       LET plate == updated.plates[p]
           key == makeObjectKey(targetName, plate.index)
           ensured == [updated EXCEPT !.perObjectOverrides =
                          ensureObjectOverride(@, targetName, plate.index)]
       IN IF ParameterThrows(change.parameter)
          THEN Outcome(ensured, <<>>, <<>>, "threw")
          ELSE
          LET override == ensured.perObjectOverrides[key]
              currentValue == CurrentValue(override, change.parameter)
              baseValue == IF currentValue = Undefined
                           THEN CurrentValue(ensured.globalProcess, change.parameter)
                           ELSE currentValue
              computed == computeNewValue(baseValue, change)
              proposed == computed.value
          IN IF baseValue = Undefined
             THEN Outcome(ensured,
                          <<Warning("unknownObjectParameterWarning",
                                    change.parameter, targetName)>>,
                          <<>>, "unknown")
             ELSE IF StrictEq(proposed, baseValue)
             THEN Outcome(ensured, RelativeWarnings(computed, change), <<>>,
                          IF computed.warned THEN "relative" ELSE "noop")
             ELSE Outcome(
                     [ensured EXCEPT
                         !.perObjectOverrides[key] =
                             Setter(override, change.parameter, proposed),
                         !.plates[p] =
                             syncPlateOverride(plate, targetName,
                                               change.parameter, proposed)],
                     RelativeWarnings(computed, change),
                     <<formatDiff(change, baseValue, proposed, "object",
                                  [present |-> TRUE, objectName |-> targetName,
                                   name |-> Undefined, plateIndex |-> plate.index])>>,
                     "applied")

applySingleChange(updated, change) ==
    LET scope == Coalesce(change.scope, VStr("global"))
    IN IF scope = VStr("global") THEN applyGlobalChange(updated, change)
       ELSE applyObjectChange(updated, change)

(***************************************************************************)
(* llm/responseValidator.js                                                *)
(***************************************************************************)
\* validateChange throws InvalidLlmResponseError for this entry.
validateChangeThrows(change) ==
    \/ ~Truthy(change.parameter)
    \/ change.newValue = Undefined
    \/ Coalesce(change.scope, VStr("global")) \notin {VStr("global"), VStr("object")}

\* The entry validateChange returns when it does not throw.
validateChange(change) ==
    [scope |-> Coalesce(change.scope, VStr("global")),
     target |-> IF change.target.present THEN change.target ELSE NoTarget,
     parameter |-> change.parameter,
     newValue |-> change.newValue,
     changeType |-> Coalesce(change.changeType, VStr("absolute")),
     reason |-> Coalesce(change.reason, VStr(""))]

\* One element of the `changes` array of a parsed response: an object (raw
\* holds its fields), or a JSON null, number or string.
JsonEntry(kind, raw) == [kind |-> kind, raw |-> raw]

\* What validateChange does with one element: "none" when it returns, else
\* the error it raises.  Reading change.parameter of null is a TypeError; of a
\* number or a string it is undefined.
validateEntryError(entry) ==
    IF entry.kind = "null" THEN "TypeError"
    ELSE IF entry.kind # "object" THEN "InvalidLlmResponseError"
    ELSE IF validateChangeThrows(entry.raw) THEN "InvalidLlmResponseError"
    ELSE "none"

\* The content handed to parseLlmResponse: text that is not JSON, or JSON
\* text of the given kind; an object carries `changes` (absent, a scalar or an
\* array of elements) and `warnings` (absent or a list).
Content(json, changesKind, items, responseWarningList) ==
    [json |-> json, changesKind |-> changesKind, items |-> items,
     warnings |-> responseWarningList]

Rejected(error) == [error |-> error, changes |-> <<>>, warnings |-> <<>>]

\* parseLlmResponse: the error it raises, or the response it returns.
parseLlmResponse(content) ==
    IF content.json = "unparseable" THEN Rejected("InvalidLlmResponseError")
    ELSE IF content.json \in {"null", "number", "string"}
         THEN Rejected("InvalidLlmResponseError")
    ELSE IF content.json = "array" \/ content.changesKind # "array"
         THEN Rejected("InvalidLlmResponseError")
    ELSE LET failing == {i \in 1..Len(content.items) :
                            validateEntryError(content.items[i]) # "none"}
         IN IF failing # {}
            THEN \* Array.prototype.map stops at the first element that throws
                 Rejected(validateEntryError(
                    content.items[CHOOSE i \in failing : \A j \in failing : i <= j]))
            ELSE [error |-> "none",
                  changes |-> [i \in 1..Len(content.items) |->
                                  validateChange(content.items[i].raw)],
                  warnings |-> content.warnings]

(***************************************************************************)
(* 3mf/parser.js: the override store the parser builds from the plates     *)
(***************************************************************************)
\* The record collectOverrides stores for one object that has settings.
OverrideOf(object, plateIndex) ==
    [own |-> ("plateIndex" :> plateIndex) @@ ("objectName" :> object.name)
                @@ object.settings.own,
     sp |-> EmptyMap]

\* The (plate, object) positions collectOverrides stores a record for.
WithSettings(plates) ==
    {po \in (1..Len(plates)) \X (1..2) :
        /\ po[2] <= Len(plates[po[1]].objects)
        /\ plates[po[1]].objects[po[2]].settings.has}

collectOverrides(plates) ==
    LET PlateIndex(po) == Coalesce(plates[po[1]].index, VNum(0))
        Object(po) == plates[po[1]].objects[po[2]]
        Key(po) == makeObjectKey(Object(po).name, PlateIndex(po))
        keys == {Key(po) : po \in WithSettings(plates)}
        \* a later object with the same key overwrites an earlier one
        Last(key) == CHOOSE po \in WithSettings(plates) :
                        /\ Key(po) = key
                        /\ \A other \in WithSettings(plates) :
                              Key(other) = key =>
                                 \/ other[1] < po[1]
                                 \/ other[1] = po[1] /\ other[2] <= po[2]
    IN [key \in keys |-> OverrideOf(Object(Last(key)), PlateIndex(Last(key)))]

(***************************************************************************)
(* 3mf/configMapping.js: vendor configuration <-> canonical settings.      *)
(* A vendor configuration is a function from its keys to their values.     *)
(***************************************************************************)
Mapping(configKey, targetKey, mode, parse, serialize) ==
    [configKey |-> configKey, targetKey |-> targetKey, mode |-> mode,
     parse |-> parse, serialize |-> serialize]

GLOBAL_PROCESS_MAPPINGS ==
    <<Mapping("layer_height", "layer_height_mm", "shaped", "parseNumber", "passthrough"),
      Mapping("initial_layer_print_height", "first_layer_height_mm", "shaped",
              "parseNumber", "passthrough"),
      Mapping("wall_loops", "wall_line_count", "shaped", "parseNumber", "passthrough"),
      Mapping("top_shell_layers", "top_layers", "shaped", "parseNumber", "passthrough"),
      Mapping("bottom_shell_layers", "bottom_layers", "shaped", "parseNumber", "passthrough"),
      Mapping("sparse_infill_density", "infill_density_percent", "direct",
              "parsePercent", "formatPercent"),
      Mapping("sparse_infill_pattern", "infill_pattern", "direct",
              "parseString", "passthrough"),
      Mapping("nozzle_temperature", "nozzle_temp_c", "shaped", "parseNumber", "passthrough"),
      Mapping("nozzle_temperature_initial_layer", "nozzle_temp_c", "shaped",
              "parseNumber", "passthrough"),
      Mapping("eng_plate_temp", "bed_temp_c", "shaped", "parseNumber", "passthrough"),
      Mapping("hot_plate_temp", "bed_temp_c", "shaped", "parseNumber", "passthrough"),
      Mapping("fan_max_speed", "fan_speed_percent", "shaped", "parseNumber", "passthrough"),
      Mapping("first_x_layer_fan_speed", "first_layers_fan_percent", "shaped",
              "parseNumber", "passthrough"),
      Mapping("enable_support", "supports_enabled", "direct",
              "parseSupportFlag", "formatSupportFlag")>>

SpeedMapping(configKey, speedKey) == [configKey |-> configKey, speedKey |-> speedKey]

SPEED_MAPPINGS ==
    <<SpeedMapping("outer_wall_speed", "wall_outer"),
      SpeedMapping("inner_wall_speed", "wall_inner"),
      SpeedMapping("sparse_infill_speed", "infill"),
      SpeedMapping("initial_layer_speed", "first_layer")>>

CONSUMED_CONFIG_KEYS ==
    {GLOBAL_PROCESS_MAPPINGS[i].configKey : i \in 1..Len(GLOBAL_PROCESS_MAPPINGS)}
    \cup {SPEED_MAPPINGS[i].configKey : i \in 1..Len(SPEED_MAPPINGS)}
    \cup {"raft_layers", "different_settings_to_system"}

\* The entries of the allow-list that occur in the configurations of the
\* model.
ALLOWED_EXTRA_CONFIG_KEYS == {"travel_speed", "fan_min_speed", "brim_width", "raft_layers"}

\* config[key]
ConfigGet(config, key) == IF key \in DOMAIN config THEN config[key] ELSE Undefined

\* The configuration after config[key] = value
ConfigPut(config, key, value) == (key :> value) @@ config

unwrapSingle(value) ==
    IF IsArray(value) /\ Len(value.items) = 1 THEN value.items[1] ELSE value

first(value) ==
    IF IsArray(value)
    THEN IF Len(value.items) > 0 THEN value.items[1] ELSE Undefined
    ELSE value

passthrough(value) == value

numberOrNull(value) ==
    IF IsNullish(value) THEN VNull
    ELSE LET num == ToNumber(value) IN IF num = NaN THEN VNull ELSE num

\* cs.replace("%", ""): the first percent sign is dropped.
RECURSIVE DropFirstPercent(_)
DropFirstPercent(cs) ==
    IF cs = <<>> THEN <<>>
    ELSE IF Head(cs) = "%" THEN Tail(cs)
    ELSE <<Head(cs)>> \o DropFirstPercent(Tail(cs))

percentToNumber(value) ==
    IF IsNullish(value) THEN VNull
    ELSE LET parsed == ParseFloat(DropFirstPercent(StringChars(value)))
         IN IF parsed = NaN THEN VNull ELSE parsed

parseNumber(value) == numberOrNull(first(value))

parsePercent(value) == percentToNumber(first(value))

parseString(value) ==
    LET raw == first(value) IN IF IsNullish(raw) THEN VNull ELSE raw

parseSupportFlag(value) ==
    LET raw == first(value)
    IN IF IsNullish(raw) THEN VNull
       ELSE VBool(raw \in {VStr("1"), VNum(1), VBool(TRUE), VStr("true")})

formatPercent(value) ==
    IF IsNullish(value) THEN Undefined
    ELSE StringOf(StringChars(value) \o <<"%">>)

formatSupportFlag(value) ==
    IF IsNullish(value) THEN Undefined
    ELSE IF Truthy(value) THEN VStr("1") ELSE VStr("0")

\* mapping.parse(value)
Parse(mapping, value) ==
    CASE mapping.parse = "parseNumber" -> parseNumber(value)
      [] mapping.parse = "parsePercent" -> parsePercent(value)
      [] mapping.parse = "parseString" -> parseString(value)
      [] OTHER -> parseSupportFlag(value)

\* mapping.serialize(value)
Serialize(mapping, value) ==
    CASE mapping.serialize = "formatPercent" -> formatPercent(value)
      [] mapping.serialize = "formatSupportFlag" -> formatSupportFlag(value)
      [] OTHER -> passthrough(value)

normalizeConfigEntries(config) == [key \in DOMAIN config |-> unwrapSingle(config[key])]

\* value > 0 on a number.
Positive(value) ==
    IF value.s = "" THEN value.n > 0 ELSE Head(Chars(value.s)) # "-"

\* What the forEach of mapConfigToSettings has built: the settings and the
\* target keys populated so far.
Mapped(next, populated) == [next |-> next, populated |-> populated]

\* The body of the forEach without its populated.has check: every mapping
\* that parses to something overwrites its target key.
MapEntry_Overwrite(mapping, config, sofar) ==
    LET parsed == Parse(mapping, ConfigGet(config, mapping.configKey))
    IN IF IsNullish(parsed) THEN sofar
       ELSE Mapped(Put(sofar.next, mapping.targetKey, parsed),
                   sofar.populated \cup {mapping.targetKey})

\* The body of the GLOBAL_PROCESS_MAPPINGS.forEach of mapConfigToSettings.  A
\* mapping that parses to nothing is passed over, and so is one whose target
\* key an earlier mapping has populated.
MapEntry(mapping, config, sofar) ==
    LET parsed == Parse(mapping, ConfigGet(config, mapping.configKey))
    IN IF IsNullish(parsed) \/ mapping.targetKey \in sofar.populated THEN sofar
       ELSE Mapped(Put(sofar.next, mapping.targetKey, parsed),
                   sofar.populated \cup {mapping.targetKey})

\* That forEach from entry i on.
RECURSIVE MapFrom(_, _, _)
MapFrom(i, config, sofar) ==
    IF i > Len(GLOBAL_PROCESS_MAPPINGS) THEN sofar.next
    ELSE Only({MapFrom(i + 1, config, entered) :
                  entered \in {MapEntry(GLOBAL_PROCESS_MAPPINGS[i], config, sofar)}})

\* The brim looked at before the raft.
applyAdhesionFromConfig_BrimFirst(config, settings) ==
    LET raft == parseNumber(ConfigGet(config, "raft_layers"))
        brim == parseNumber(ConfigGet(config, "brim_width"))
    IN IF Truthy(brim) /\ Positive(brim)
       THEN Put(settings, "adhesion_type", VStr("brim"))
       ELSE IF Truthy(raft) /\ Positive(raft)
       THEN Put(settings, "adhesion_type", VStr("raft"))
       ELSE settings

applyAdhesionFromConfig(config, settings) ==
    LET raft == parseNumber(ConfigGet(config, "raft_layers"))
        brim == parseNumber(ConfigGet(config, "brim_width"))
    IN IF Truthy(raft) /\ Positive(raft)
       THEN Put(settings, "adhesion_type", VStr("raft"))
       ELSE IF Truthy(brim) /\ Positive(brim)
       THEN Put(settings, "adhesion_type", VStr("brim"))
       ELSE settings

RECURSIVE SpeedsFrom(_, _, _)
SpeedsFrom(i, config, settings) ==
    IF i > Len(SPEED_MAPPINGS) THEN settings
    ELSE LET value == parseNumber(ConfigGet(config, SPEED_MAPPINGS[i].configKey))
         IN IF IsNullish(value) THEN SpeedsFrom(i + 1, config, settings)
            ELSE SpeedsFrom(i + 1, config,
                            SpeedsPut(settings, SPEED_MAPPINGS[i].speedKey, value))

applySpeedsFromConfig(config, settings) == SpeedsFrom(1, config, settings)

\* Every allow-listed key the mappings do not consume is copied as it is,
\* unless the settings already have it.
mergeRemainingConfig(config, settings) ==
    LET copied == {key \in DOMAIN config :
                      /\ key \notin CONSUMED_CONFIG_KEYS
                      /\ key \in ALLOWED_EXTRA_CONFIG_KEYS
                      /\ Get(settings, key) = Undefined}
    IN [settings EXCEPT
           !.own = [key \in copied |-> config[key]] @@ settings.own]

mapConfigToSettings(config, baseSettings) ==
    LET normalizedConfig == normalizeConfigEntries(config)
        mapped == MapFrom(1, normalizedConfig, Mapped(baseSettings, {}))
    IN mergeRemainingConfig(normalizedConfig,
          applySpeedsFromConfig(normalizedConfig,
             applyAdhesionFromConfig(normalizedConfig, mapped)))

(***************************************************************************)
(* 3mf/parser.js: the project read from a vendor configuration.  The       *)
(* archive's metadata.json carries no printer, filament or settings of its *)
(* own, so all of them come from the configuration.                        *)
(***************************************************************************)
DEFAULT_SPEEDS ==
    ("wall_outer" :> VNum(40)) @@ ("wall_inner" :> VNum(60))
    @@ ("infill" :> VNum(80)) @@ ("first_layer" :> VNum(30))

DEFAULT_GLOBAL_PROCESS ==
    ("layer_height_mm" :> Decimal(FALSE, <<"0">>, <<"2">>))
    @@ ("first_layer_height_mm" :> Decimal(FALSE, <<"0">>, <<"2">>))
    @@ ("wall_line_count" :> VNum(2))
    @@ ("top_layers" :> VNum(4))
    @@ ("bottom_layers" :> VNum(4))
    @@ ("infill_density_percent" :> VNum(15))
    @@ ("infill_pattern" :> VStr("grid"))
    @@ ("nozzle_temp_c" :> VNum(215))
    @@ ("bed_temp_c" :> VNum(60))
    @@ ("fan_speed_percent" :> VNum(80))
    @@ ("first_layers_fan_percent" :> VNum(80))
    @@ ("supports_enabled" :> VBool(FALSE))
    @@ ("adhesion_type" :> VStr("none"))

DEFAULT_NOZZLE_DIAMETER_MM == Decimal(FALSE, <<"0">>, <<"4">>)

withDefault(value, fallback) == Coalesce(value, fallback)

buildGlobalProcess(settings) ==
    LET own(key) == Get(settings, key)
        default(key) == DEFAULT_GLOBAL_PROCESS[key]
        filled ==
            ("layer_height_mm" :> withDefault(own("layer_height_mm"),
                                              default("layer_height_mm")))
            @@ ("first_layer_height_mm" :>
                   withDefault(Coalesce(own("first_layer_height_mm"),
                                        own("layer_height_mm")),
                               default("first_layer_height_mm")))
            @@ ("wall_line_count" :> withDefault(own("wall_line_count"),
                                                 default("wall_line_count")))
            @@ ("top_layers" :> withDefault(own("top_layers"), default("top_layers")))
            @@ ("bottom_layers" :> withDefault(own("bottom_layers"),
                                               default("bottom_layers")))
            @@ ("infill_density_percent" :>
                   withDefault(own("infill_density_percent"),
                               default("infill_density_percent")))
            @@ ("infill_pattern" :> Coalesce(own("infill_pattern"),
                                             default("infill_pattern")))
            @@ ("nozzle_temp_c" :> withDefault(own("nozzle_temp_c"),
                                               default("nozzle_temp_c")))
            @@ ("bed_temp_c" :> withDefault(own("bed_temp_c"), default("bed_temp_c")))
            @@ ("fan_speed_percent" :> withDefault(own("fan_speed_percent"),
                                                   default("fan_speed_percent")))
            @@ ("first_layers_fan_percent" :>
                   withDefault(Coalesce(own("first_layers_fan_percent"),
                                        own("fan_speed_percent")),
                               default("first_layers_fan_percent")))
            @@ ("speeds" :> VSpeedsObject)
            @@ ("supports_enabled" :> Coalesce(own("supports_enabled"),
                                               default("supports_enabled")))
            @@ ("adhesion_type" :> Coalesce(own("adhesion_type"),
                                            default("adhesion_type")))
    IN [own |-> filled @@ settings.own,
        sp |-> IF Truthy(own("speeds")) THEN settings.sp @@ DEFAULT_SPEEDS
               ELSE DEFAULT_SPEEDS]

\* value?.[0]: the first element of an array, the first character of a string.
Index0(value) ==
    IF IsNullish(value) THEN Undefined
    ELSE IF IsArray(value)
         THEN IF Len(value.items) > 0 THEN value.items[1] ELSE Undefined
    ELSE IF value.t = "string" /\ StringChars(value) # <<>>
         THEN StringOf(<<Head(StringChars(value))>>)
    ELSE Undefined

\* String.prototype.toUpperCase on one character.
UpperChar(c) ==
    IF \E i \in 1..26 : LowerLetters[i] = c
    THEN UpperLetters[CHOOSE i \in 1..26 : LowerLetters[i] = c]
    ELSE c

\* cs.includes(part)
Includes(cs, part) ==
    \E i \in 1..(Len(cs) + 1) :
        /\ i + Len(part) - 1 <= Len(cs)
        /\ SubSeq(cs, i, i + Len(part) - 1) = part

mapMaterialFamily(type) ==
    IF ~Truthy(type) THEN VStr("Other")
    ELSE LET chars == StringChars(type)
             upper == [i \in 1..Len(chars) |-> UpperChar(chars[i])]
         IN IF Includes(upper, <<"P", "L", "A">>) THEN VStr("PLA")
            ELSE IF Includes(upper, <<"P", "E", "T", "G">>) THEN VStr("PETG")
            ELSE IF Includes(upper, <<"A", "B", "S">>) THEN VStr("ABS")
            ELSE IF Includes(upper, <<"A", "S", "A">>) THEN VStr("ASA")
            ELSE IF Includes(upper, <<"T", "P", "U">>) THEN VStr("TPU")
            ELSE IF Includes(upper, <<"N", "Y", "L", "O", "N">>) THEN VStr("Nylon")
            ELSE IF Includes(upper, <<"P", "C">>) THEN VStr("PC")
            ELSE VStr("Other")

\* What applyConfig leaves in the metadata: the printer's nozzle diameter,
\* the first filament's material family, the quality preset and the settings.
applyConfig(config) ==
    [nozzle_diameter_mm |->
        Coalesce(numberOrNull(Index0(ConfigGet(config, "nozzle_diameter"))), Undefined),
     material_family |-> mapMaterialFamily(Index0(ConfigGet(config, "filament_type"))),
     quality_preset |-> Coalesce(ConfigGet(config, "default_print_profile"), VNull),
     settings |-> mapConfigToSettings(config, [own |-> EmptyMap, sp |-> EmptyMap])]

\* The normalized project: projectSummary and currentSettings.globalProcess.
buildNormalized(metadata) ==
    [projectSummary |->
        [nozzle_diameter_mm |-> Coalesce(metadata.nozzle_diameter_mm,
                                         DEFAULT_NOZZLE_DIAMETER_MM),
         material_family |-> Coalesce(metadata.material_family, VStr("Other")),
         base_profile |-> Coalesce(metadata.quality_preset, VNull)],
     globalProcess |-> buildGlobalProcess(metadata.settings)]

(***************************************************************************)
(* 3mf/writer.js: the vendor configuration written from the project.  The  *)
(* writer's progress is the configuration so far and the keys it touched.  *)
(***************************************************************************)
MAPPED_TARGET_KEYS ==
    {GLOBAL_PROCESS_MAPPINGS[i].targetKey : i \in 1..Len(GLOBAL_PROCESS_MAPPINGS)}

MAPPED_CONFIG_KEYS ==
    {GLOBAL_PROCESS_MAPPINGS[i].configKey : i \in 1..Len(GLOBAL_PROCESS_MAPPINGS)}
    \cup {SPEED_MAPPINGS[i].configKey : i \in 1..Len(SPEED_MAPPINGS)}
    \cup {"brim_width", "raft_layers"}

setConfigValue(existing, value) ==
    IF IsNullish(value) THEN existing
    ELSE LET asString == ToStringValue(value)
         IN IF IsArray(existing)
            THEN IF Len(existing.items) = 0 THEN VArray(<<asString>>)
                 ELSE VArray([i \in 1..Len(existing.items) |-> asString])
            ELSE asString

Written(cfg, touchedKeys) == [cfg |-> cfg, touchedKeys |-> touchedKeys]

setShapedConfigValue(w, key, value) ==
    Written(ConfigPut(w.cfg, key, setConfigValue(ConfigGet(w.cfg, key), value)),
            w.touchedKeys \cup {key})

\* The direct setter without its touchedKeys.add(key).
setDirectConfigValue_Untracked(w, key, value) ==
    IF IsNullish(value) THEN w
    ELSE Written(ConfigPut(w.cfg, key, value), w.touchedKeys)

setDirectConfigValue(w, key, value) ==
    IF IsNullish(value) THEN w
    ELSE Written(ConfigPut(w.cfg, key, value), w.touchedKeys \cup {key})

writeAdhesionToConfig(w, adhesionType) ==
    LET brim == setDirectConfigValue(w, "brim_width",
                   IF StrictEq(adhesionType, VStr("brim"))
                   THEN Coalesce(ConfigGet(w.cfg, "brim_width"), VStr("5"))
                   ELSE VStr("0"))
    IN setDirectConfigValue(brim, "raft_layers",
          IF StrictEq(adhesionType, VStr("raft"))
          THEN Coalesce(ConfigGet(brim.cfg, "raft_layers"), VStr("1"))
          ELSE VStr("0"))

writePrinterAndFilament(w, projectSummary) ==
    LET nozzleDiameter == projectSummary.nozzle_diameter_mm
        filamentFamily == projectSummary.material_family
        nozzle == IF ~IsNullish(nozzleDiameter)
                  THEN Written(ConfigPut(w.cfg, "nozzle_diameter",
                                         VArray(<<ToStringValue(nozzleDiameter)>>)),
                               w.touchedKeys \cup {"nozzle_diameter"})
                  ELSE w
        filament == IF Truthy(filamentFamily)
                    THEN Written(ConfigPut(nozzle.cfg, "filament_type",
                                           VArray(<<filamentFamily>>)),
                                 nozzle.touchedKeys \cup {"filament_type"})
                    ELSE nozzle
        baseProfile == Coalesce(projectSummary.base_profile,
                                ConfigGet(filament.cfg, "default_print_profile"))
    IN IF baseProfile # Undefined
       THEN Written(ConfigPut(filament.cfg, "default_print_profile", baseProfile),
                    filament.touchedKeys \cup {"default_print_profile"})
       ELSE filament

\* The body of the GLOBAL_PROCESS_MAPPINGS.forEach of applyGlobalProcessConfig.
WriteMapping(mapping, w, gp) ==
    LET value == Get(gp, mapping.targetKey)
        formatted == Serialize(mapping, value)
    IN IF value = Undefined \/ IsNullish(formatted) THEN w
       ELSE IF mapping.mode = "shaped"
            THEN setShapedConfigValue(w, mapping.configKey, formatted)
       ELSE setDirectConfigValue(w, mapping.configKey, formatted)

\* That forEach from entry i on.
RECURSIVE WriteMappingsFrom(_, _, _)
WriteMappingsFrom(i, sofar, gp) ==
    IF i > Len(GLOBAL_PROCESS_MAPPINGS) THEN sofar
    ELSE Only({WriteMappingsFrom(i + 1, next, gp) :
                  next \in {WriteMapping(GLOBAL_PROCESS_MAPPINGS[i], sofar, gp)}})

applyGlobalProcessConfig(w, gp, projectSummary) ==
    Only({writePrinterAndFilament(adhered, projectSummary) :
             adhered \in {writeAdhesionToConfig(mapped, Get(gp, "adhesion_type")) :
                             mapped \in {WriteMappingsFrom(1, w, gp)}}})

\* The body of the SPEED_MAPPINGS.forEach of applySpeedConfig.
WriteSpeed(mapping, w, gp) ==
    LET value == SpeedsGet(gp, mapping.speedKey)
    IN IF value = Undefined THEN w
       ELSE setShapedConfigValue(w, mapping.configKey, value)

RECURSIVE WriteSpeedsFrom(_, _, _)
WriteSpeedsFrom(i, sofar, gp) ==
    IF i > Len(SPEED_MAPPINGS) THEN sofar
    ELSE Only({WriteSpeedsFrom(i + 1, next, gp) :
                  next \in {WriteSpeed(SPEED_MAPPINGS[i], sofar, gp)}})

applySpeedConfig(w, gp) == WriteSpeedsFrom(1, w, gp)

allowedExtraKey(key) == key \in ALLOWED_EXTRA_CONFIG_KEYS

\* The keys of gp that applyAdditionalConfig writes.
AdditionalKeys(gp) ==
    {key \in DOMAIN gp.own :
        /\ key \notin MAPPED_TARGET_KEYS
        /\ key \notin MAPPED_CONFIG_KEYS
        /\ allowedExtraKey(key)
        /\ key \notin {"speeds", "adhesion_type"}
        /\ ~IsNullish(gp.own[key])}

applyAdditionalConfig(w, gp) ==
    Written([key \in AdditionalKeys(gp) |->
                setConfigValue(ConfigGet(w.cfg, key), gp.own[key])] @@ w.cfg,
            w.touchedKeys \cup AdditionalKeys(gp))

DIFFERENT_SETTINGS_GROUP_KEYS ==
    [print |-> {"layer_height", "initial_layer_print_height", "wall_loops",
                "top_shell_layers", "bottom_shell_layers", "sparse_infill_density",
                "sparse_infill_pattern", "outer_wall_speed", "inner_wall_speed",
                "sparse_infill_speed", "initial_layer_speed", "enable_support",
                "brim_width", "raft_layers", "default_print_profile"},
     filament |-> {"compatible_printers", "eng_plate_temp", "hot_plate_temp",
                   "fan_max_speed", "first_x_layer_fan_speed", "nozzle_temperature",
                   "nozzle_temperature_initial_layer", "filament_type"},
     printer |-> {"printer_model", "nozzle_diameter"}]

\* The keys of one group: the pieces between semicolons, trimmed, the empty
\* ones dropped.  A key is kept as its characters.
GroupKeys(raw) ==
    LET pieces == Split(raw, ";")
    IN {Trim(pieces[i]) : i \in 1..Len(pieces)} \ {<<>>}

\* The three groups as sets of keys (group 0 is entry 1).
parseDifferentSettingsToSystem(existing) ==
    [index \in 1..3 |->
        IF IsArray(existing) /\ index <= Len(existing.items)
           /\ existing.items[index].t = "string"
        THEN GroupKeys(StringChars(existing.items[index]))
        ELSE {}]

\* indexByKey.get(key): the last group that lists the key, 0 for none.
buildExistingIndexByKey(groups, key) ==
    IF \E index \in 1..3 : key \in groups[index]
    THEN CHOOSE index \in 1..3 :
            /\ key \in groups[index]
            /\ \A later \in (index + 1)..3 : key \notin groups[later]
    ELSE 0

\* The group of the static category table, whatever group lists the key.
resolveDifferentSettingsGroupIndex_StaticOnly(key, groups) ==
    IF key \in DIFFERENT_SETTINGS_GROUP_KEYS.print THEN 1
    ELSE IF key \in DIFFERENT_SETTINGS_GROUP_KEYS.filament THEN 2
    ELSE IF key \in DIFFERENT_SETTINGS_GROUP_KEYS.printer THEN 3
    ELSE 1

resolveDifferentSettingsGroupIndex(key, groups) ==
    LET existing == buildExistingIndexByKey(groups, Chars(key))
    IN IF existing # 0 THEN existing
       ELSE IF key \in DIFFERENT_SETTINGS_GROUP_KEYS.print THEN 1
       ELSE IF key \in DIFFERENT_SETTINGS_GROUP_KEYS.filament THEN 2
       ELSE IF key \in DIFFERENT_SETTINGS_GROUP_KEYS.printer THEN 3
       ELSE 1

\* [...keys].sort(): the keys in the order of their code units.
RECURSIVE Sorted(_)
Sorted(keys) ==
    IF keys = {} THEN <<>>
    ELSE Only({<<pick[1]>> \o Sorted(pick[2]) :
                  pick \in {<<k, keys \ {k}>> :
                              k \in {k \in keys :
                                        \A other \in keys \ {k} : CharsLess(k, other)}}})

formatDifferentSettingsGroup(keys) ==
    IF keys = {} THEN VStr("") ELSE StringOf(Join(Sorted(keys), ";"))

areConfigValuesEqual(a, b) ==
    IF IsArray(a) \/ IsArray(b)
    THEN /\ IsArray(a) /\ IsArray(b)
         /\ Len(a.items) = Len(b.items)
         /\ \A index \in 1..Len(a.items) : StrictEq(a.items[index], b.items[index])
    ELSE StrictEq(a, b)

\* The groups after the loop over the touched keys, without the sentinel rule.
MergedGroups_NoSentinel(groups, base, updated, touchedKeys) ==
    LET changed == {key \in touchedKeys :
                       /\ key # "different_settings_to_system"
                       /\ ~areConfigValuesEqual(ConfigGet(base, key),
                                                ConfigGet(updated, key))}
    IN [index \in 1..3 |->
           groups[index]
           \cup {Chars(key) : key \in
                   {k \in changed :
                       resolveDifferentSettingsGroupIndex(k, groups) = index}}]

\* The groups after the loop over the touched keys and the sentinel rule.
MergedGroups(groups, base, updated, touchedKeys) ==
    LET changed == {key \in touchedKeys :
                       /\ key # "different_settings_to_system"
                       /\ ~areConfigValuesEqual(ConfigGet(base, key),
                                                ConfigGet(updated, key))}
        merged == [index \in 1..3 |->
                      groups[index]
                      \cup {Chars(key) : key \in
                              {k \in changed :
                                  resolveDifferentSettingsGroupIndex(k, groups) = index}}]
    IN [merged EXCEPT ![2] = IF merged[2] # {}
                             THEN merged[2] \cup {Chars("compatible_printers")}
                             ELSE merged[2]]

updateDifferentSettingsToSystem(existing, base, updated, touchedKeys) ==
    Only({VArray([index \in 1..3 |-> formatDifferentSettingsGroup(sets[index])]) :
             sets \in {MergedGroups(groups, base, updated, touchedKeys) :
                          groups \in {parseDifferentSettingsToSystem(existing)}}})

\* What buildConfigFromNormalized has when the three passes are done.
WrittenSettings(base, normalized) ==
    Only({applyAdditionalConfig(speeds, normalized.globalProcess) :
             speeds \in {applySpeedConfig(mapped, normalized.globalProcess) :
                            mapped \in {applyGlobalProcessConfig(
                                           Written(base, {}),
                                           normalized.globalProcess,
                                           normalized.projectSummary)}}})

\* The configuration buildConfigFromNormalized returns, with the keys touched.
buildConfigFromNormalized(base, normalized) ==
    Only({Written(ConfigPut(w.cfg, "different_settings_to_system",
                     updateDifferentSettingsToSystem(
                         ConfigGet(w.cfg, "different_settings_to_system"),
                         base, w.cfg, w.touchedKeys)),
                  w.touchedKeys) :
             w \in {WrittenSettings(base, normalized)}})

(***************************************************************************)
(* The inputs of applyLlmChanges                                           *)
(***************************************************************************)
Plates ==
    <<[index |-> VNum(0),
       objects |-> <<[name |-> VStr("Benchy"), settings |-> NoSettings],
                     [name |-> VStr("Cube"),
                      settings |-> [has |-> TRUE,
                                    own |-> ("wall_line_count" :> VNum(4))]]>>],
      [index |-> VNum(1),
       objects |-> <<[name |-> VStr("Cube"), settings |-> NoSettings]>>]>>

GlobalProcess ==
    [own |-> ("wall_line_count" :> VNum(2)) @@ ("infill_pattern" :> VStr("grid"))
                @@ ("speeds" :> VSpeedsObject),
     sp |-> ("wall_outer" :> VNum(40))]

UserModifiedChoices ==
    {<<>>, <<VStr("wall_line_count"), VStr("infill_pattern")>>,
     <<VStr("Wall-Line-Count")>>}

Models ==
    {[plates |-> Plates,
      globalProcess |-> GlobalProcess,
      perObjectOverrides |-> collectOverrides(Plates),
      userModifiedSettings |-> um] : um \in UserModifiedChoices}

\* response.warnings: absent, or one warning of the service's own.
ResponseWarningChoices ==
    {[has |-> FALSE, list |-> <<>>],
     [has |-> TRUE, list |-> <<Warning("text", VStr("LLM warning"), Undefined)>>]}

Target(objectName, plateIndex) ==
    [present |-> TRUE, objectName |-> objectName, name |-> Undefined,
     plateIndex |-> plateIndex]

RawChange(scope, target, parameter, op) ==
    [scope |-> scope, target |-> target, parameter |-> parameter,
     newValue |-> op.newValue, changeType |-> op.changeType, reason |-> Undefined]

Absolute4 == [newValue |-> VNum(4), changeType |-> Undefined]
AbsoluteGrid == [newValue |-> VStr("grid"), changeType |-> VStr("absolute")]
RelativeHalf == [newValue |-> Dyadic(-1, 1), changeType |-> VStr("relative")]
RelativeGrid == [newValue |-> VStr("grid"), changeType |-> VStr("relative")]
RelativeZero == [newValue |-> VNum(0), changeType |-> VStr("relative")]
AllOps == {Absolute4, AbsoluteGrid, RelativeHalf, RelativeGrid}

\* Parameter, operation pairs the service may send for either scope.
CommonRequests ==
    ({VStr("wall_line_count"), VStr("speeds.wall_outer")} \X AllOps)
    \cup ({VStr("infill_pattern")} \X {AbsoluteGrid, RelativeHalf})
    \cup ({VStr("not_a_real_key"), VStr("constructor"), VNum(5)} \X {Absolute4})

GlobalRequests ==
    CommonRequests
    \cup ({VStr("infill_pattern")} \X {Absolute4, RelativeGrid})
    \cup ({VStr("speeds"), VStr("constructor")} \X {Absolute4, RelativeHalf})
    \cup ({VStr("speeds.wall_outer.max")} \X {Absolute4})
    \cup ({VStr("wall_line_count")} \X {RelativeZero})

RawChanges ==
    {RawChange(scope, NoTarget, r[1], r[2]) :
        scope \in {Undefined, VStr("global")}, r \in GlobalRequests}
    \cup {RawChange(VStr("object"), target, r[1], r[2]) :
            target \in {Target(VStr("Cube"), VNum(0)), Target(VStr("Cube"), VNum(1))},
            r \in CommonRequests}
    \cup {RawChange(VStr("object"), target, VStr("wall_line_count"), Absolute4) :
            target \in {Target(VStr("Cube"), VNull),
                        Target(VStr("Ghost"), Undefined),
                        Target(VStr("Cube"), VNum(7)),
                        NoTarget}}
    \* a parameter that names a field of the override record itself
    \cup {RawChange(VStr("object"), Target(VStr("Cube"), VNum(0)),
                    VStr("plateIndex"), Absolute4)}

\* The entries the Response Adapter lets through, as it returns them.
ValidatedChanges ==
    {validateChange(raw) : raw \in {r \in RawChanges : ~validateChangeThrows(r)}}

(***************************************************************************)
(* applyLlmChanges as a state machine: one step per iteration of the loop  *)
(* over response.changes                                                   *)
(***************************************************************************)
VARIABLES
    normalized,           \* the model passed in
    respectUserSettings,  \* the option of that name
    responseWarnings,     \* response.warnings
    updated,              \* the clone the loop mutates
    warnings,             \* the warnings list
    diffs,                \* the diffs list
    pc,                   \* "loop", "done" (returned) or "threw"
    n,                    \* entries of response.changes processed so far
    change,               \* the entry the last iteration processed
    branch,               \* the path the last iteration took
    before,               \* updated as the last iteration found it
    overrides,            \* an override store handed to the helpers directly
    held,                 \* what the last helper call returned
    storeOp,              \* the last helper call: "ensure", "set" or "read"
    storeTarget,          \* the target of that call
    storeOps,             \* helper calls made so far
    options,              \* the command line options of one optimize run
    stage,                \* where handleOptimize stands
    content,              \* the text the service (or the mock file) returned
    llmResponse,          \* what parseLlmResponse returned
    failure,              \* the error handleOptimize ended with, or "none"
    requests,             \* chat completion requests sent to the service
    filesWritten,         \* output archives written
    log,                  \* the steps of handleOptimize that completed, in order
    configData,           \* the vendor configuration read from the archive
    project,              \* the normalized project parsed from it
    edited,               \* the parameters applied changes have set since
    updatedConfig,        \* the configuration buildConfigFromNormalized returned
    touchedKeys,          \* the keys it touched
    phase                 \* "idle", "read", "parsed" or "written"

applyVars == <<normalized, respectUserSettings, responseWarnings, updated, warnings,
               diffs, pc, n, change, branch, before>>

storeVars == <<overrides, held, storeOp, storeTarget, storeOps>>

flowVars == <<options, stage, content, llmResponse, failure, requests,
              filesWritten, log>>

writerVars == <<configData, project, edited, updatedConfig, touchedKeys, phase>>

vars == <<applyVars, storeVars, flowVars, writerVars>>

\* What a helper call returned: a record of the store (named by its key), a
\* function the store object inherits, or undefined.
Reference(kind, key) == [kind |-> kind, key |-> key]

NoReference == Reference("undefined", <<>>)

\* No helper has been called directly.
StoreUntouched ==
    /\ overrides = EmptyMap
    /\ held = NoReference
    /\ storeOp = "none"
    /\ storeTarget = Target(Undefined, Undefined)
    /\ storeOps = 0

NoOptions == [dryRun |-> FALSE, mockResponse |-> FALSE, apiKey |-> FALSE,
              force |-> FALSE]

NoContent == Content("unparseable", "absent", <<>>, <<>>)

\* handleOptimize is not running.
FlowIdle ==
    /\ options = NoOptions
    /\ stage = "idle"
    /\ content = NoContent
    /\ llmResponse = Rejected("none")
    /\ failure = "none"
    /\ requests = 0
    /\ filesWritten = 0
    /\ log = <<>>

EmptyConfig == [key \in {} |-> Undefined]

NoProject ==
    [projectSummary |-> [nozzle_diameter_mm |-> Undefined,
                         material_family |-> Undefined,
                         base_profile |-> Undefined],
     globalProcess |-> [own |-> EmptyMap, sp |-> EmptyMap]]

\* No vendor configuration is being read or written.
WriterIdle ==
    /\ configData = EmptyConfig
    /\ project = NoProject
    /\ edited = {}
    /\ updatedConfig = EmptyConfig
    /\ touchedKeys = {}
    /\ phase = "idle"

NoChange == RawChange(Undefined, NoTarget, Undefined, [newValue |-> Undefined, changeType |-> Undefined])

Init ==
    /\ normalized \in Models
    /\ respectUserSettings \in BOOLEAN
    /\ responseWarnings \in ResponseWarningChoices
    \* nothing is locked: the option and the service's warnings play no part
    /\ normalized.userModifiedSettings = <<>> =>
          respectUserSettings /\ ~responseWarnings.has
    /\ normalized.userModifiedSettings # <<>> => responseWarnings.has
    /\ updated = normalized
    /\ warnings = responseWarnings.list
    /\ diffs = <<>>
    /\ pc = "loop"
    /\ n = 0
    /\ change = NoChange
    /\ branch = "none"
    /\ before = normalized
    /\ StoreUntouched
    /\ WriterIdle
    /\ FlowIdle

\* No clone: `updated` is the model passed in, and what the loop writes into
\* it is written into the caller's model.
structuredClone_Shared(input, written) == written

\* const updated = structuredClone(normalized): the model passed in, as it is
\* once the loop has made `written` of its clone. The clone shares no object
\* with it.
structuredClone(input, written) == input

\* The lock check at the head of the loop body.
Locked(c) ==
    /\ respectUserSettings
    /\ isUserSettingLocked(c.parameter,
                           buildUserModifiedLookup(updated.userModifiedSettings))

\* The loop of applyLlmChanges from entry i of changes on, as one computation.
RECURSIVE ApplyFrom(_, _, _, _)
ApplyFrom(result, changes, i, respect) ==
    IF i > Len(changes) \/ result.threw THEN result
    ELSE IF /\ respect
            /\ isUserSettingLocked(changes[i].parameter,
                  buildUserModifiedLookup(result.updated.userModifiedSettings))
         THEN Only({ApplyFrom(next, changes, i + 1, respect) : next \in
                       {[result EXCEPT !.warnings =
                            Append(@, Warning("userSettingLockedWarning",
                                              changes[i].parameter, Undefined))]}})
         ELSE Only({ApplyFrom(next, changes, i + 1, respect) : next \in
                       {[updated |-> outcome.updated,
                         warnings |-> result.warnings \o outcome.pushed,
                         diffs |-> result.diffs \o outcome.diff,
                         threw |-> outcome.branch = "threw"] :
                        outcome \in {applySingleChange(result.updated, changes[i])}}})

\* applyLlmChanges({ normalized, response, respectUserSettings })
applyLlmChanges(model, response, respect) ==
    Only({ApplyFrom(start, response.changes, 1, respect) : start \in
             {[updated |-> model, warnings |-> response.warnings,
               diffs |-> <<>>, threw |-> FALSE]}})

\* One iteration of `for (const change of response.changes)`.
ApplyChange ==
    /\ pc = "loop"
    /\ n < MaxChanges
    /\ \E c \in ValidatedChanges :
          \E outcome \in {applySingleChange(updated, c)} :
             /\ change' = c
             /\ before' = updated
             /\ n' = n + 1
             /\ IF Locked(c)
                THEN /\ warnings' = Append(warnings,
                            Warning("userSettingLockedWarning", c.parameter, Undefined))
                     /\ branch' = "locked"
                     /\ pc' = "loop"
                     /\ UNCHANGED <<updated, diffs>>
                ELSE /\ updated' = outcome.updated
                     /\ warnings' = warnings \o outcome.pushed
                     /\ diffs' = diffs \o outcome.diff
                     /\ branch' = outcome.branch
                     /\ pc' = IF outcome.branch = "threw" THEN "threw" ELSE "loop"
    /\ normalized' = structuredClone(normalized, updated')
    /\ UNCHANGED <<respectUserSettings, responseWarnings>>
    /\ UNCHANGED <<storeVars, flowVars, writerVars>>

\* return { updated, warnings, diffs }
Return ==
    /\ pc = "loop"
    /\ pc' = "done"
    /\ UNCHANGED <<normalized, respectUserSettings, responseWarnings, updated,
                   warnings, diffs, n, change, branch, before>>
    /\ UNCHANGED <<storeVars, flowVars, writerVars>>

Next == ApplyChange \/ Return

Spec == Init /\ [][Next]_vars

(***************************************************************************)
(* utils/objectOverrides.js called directly on a store                     *)
(***************************************************************************)
StoreNames == {VStr("Cube"), VStr("constructor"), Undefined}
StorePlateIndices == {VNull, VNum(0), VNum(1)}
StoreSettings == {"wall_line_count"}
StoreValues == {VNum(4), VStr("grid")}

\* applyLlmChanges is not running.
ApplyIdle ==
    /\ normalized = CHOOSE m \in Models : m.userModifiedSettings = <<>>
    /\ respectUserSettings = TRUE
    /\ responseWarnings = CHOOSE w \in ResponseWarningChoices : ~w.has
    /\ updated = normalized
    /\ warnings = <<>>
    /\ diffs = <<>>
    /\ pc = "done"
    /\ n = 0
    /\ change = NoChange
    /\ branch = "none"
    /\ before = normalized

\* The store is empty (`const overrides = {}`) or the one the parser collected.
InitStore ==
    /\ ApplyIdle
    /\ overrides \in {EmptyMap, collectOverrides(Plates)}
    /\ held = NoReference
    /\ storeOp = "none"
    /\ storeTarget = Target(Undefined, Undefined)
    /\ storeOps = 0
    /\ FlowIdle
    /\ WriterIdle

\* What overrides[key] evaluates to.
Lookup(store, key) ==
    IF key \in DOMAIN store THEN Reference("record", key)
    ELSE IF \E k \in InheritedKeys : Chars(k) = key THEN Reference("inherited", key)
    ELSE NoReference

\* const record = ensureObjectOverride(overrides, { objectName, plateIndex })
Ensure ==
    /\ storeOps < MaxStoreOps
    /\ \E objectName \in StoreNames, plateIndex \in StorePlateIndices :
          /\ overrides' = ensureObjectOverride(overrides, objectName, plateIndex)
          /\ held' = Lookup(overrides', makeObjectKey(objectName, plateIndex))
          /\ storeTarget' = Target(objectName, plateIndex)
    /\ storeOp' = "ensure"
    /\ storeOps' = storeOps + 1
    /\ UNCHANGED <<applyVars, flowVars, writerVars>>

\* record[setting] = value, on the record the last call returned
SetThroughReference ==
    /\ storeOps < MaxStoreOps
    /\ held.kind = "record"
    /\ \E setting \in StoreSettings, value \in StoreValues :
          overrides' = [overrides EXCEPT ![held.key] = Put(@, setting, value)]
    /\ storeOp' = "set"
    /\ storeOps' = storeOps + 1
    /\ UNCHANGED <<held, storeTarget>>
    /\ UNCHANGED <<applyVars, flowVars, writerVars>>

\* readObjectOverride(overrides, { objectName, plateIndex })
Read ==
    /\ storeOps < MaxStoreOps
    /\ \E objectName \in StoreNames, plateIndex \in StorePlateIndices :
          /\ held' = Lookup(overrides, makeObjectKey(objectName, plateIndex))
          /\ storeTarget' = Target(objectName, plateIndex)
    /\ storeOp' = "read"
    /\ storeOps' = storeOps + 1
    /\ UNCHANGED overrides
    /\ UNCHANGED <<applyVars, flowVars, writerVars>>

NextStore == Ensure \/ SetThroughReference \/ Read

SpecStore == InitStore /\ [][NextStore]_vars

(***************************************************************************)
(* cli.js handleOptimize with llm/optimizerClient.js requestOptimization:  *)
(* one optimize run                                                        *)
(***************************************************************************)
PercentTo4 == [newValue |-> VNum(4), changeType |-> VStr("percent")]
NoValue == [newValue |-> Undefined, changeType |-> Undefined]

\* Elements a changes array may carry: entries the adapter lets through
\* (one with a changeType of its own making, one with a number as parameter),
\* entries it stops, and elements that are no objects.
FlowEntries ==
    {JsonEntry("object", raw) : raw \in
        {RawChange(Undefined, NoTarget, VStr("wall_line_count"), Absolute4),
         RawChange(VStr("object"), Target(VStr("Cube"), VNum(0)),
                   VStr("wall_line_count"), RelativeHalf),
         RawChange(VStr("global"), NoTarget, VStr("wall_line_count"), PercentTo4),
         RawChange(Undefined, NoTarget, VNum(5), Absolute4),
         RawChange(VStr("global"), NoTarget, Undefined, Absolute4),
         RawChange(Undefined, NoTarget, VStr("wall_line_count"), NoValue),
         RawChange(VStr("plate"), NoTarget, VStr("wall_line_count"), Absolute4)}}
    \cup {JsonEntry("null", NoChange), JsonEntry("number", NoChange)}

RECURSIVE EntryLists(_)
EntryLists(len) ==
    IF len = 0 THEN {<<>>}
    ELSE EntryLists(len - 1)
         \cup {Append(list, entry) : list \in {l \in EntryLists(len - 1) : Len(l) = len - 1},
                                      entry \in FlowEntries}

\* What the service or the mock file may hold; completion content that is
\* missing becomes the empty text, which is not JSON.
Contents ==
    {Content("unparseable", "absent", <<>>, <<>>),
     Content("null", "absent", <<>>, <<>>),
     Content("number", "absent", <<>>, <<>>),
     Content("array", "absent", <<>>, <<>>),
     Content("object", "absent", <<>>, <<>>),
     Content("object", "scalar", <<>>, <<>>)}
    \cup {Content("object", "array", items, <<>>) : items \in EntryLists(MaxEntries)}

FlowModels == {m \in Models : Len(m.userModifiedSettings) # 1}

InitOptimize ==
    /\ options \in [dryRun : BOOLEAN, mockResponse : BOOLEAN, apiKey : BOOLEAN,
                    force : BOOLEAN]
    /\ stage = "start"
    /\ content = NoContent
    /\ llmResponse = Rejected("none")
    /\ failure = "none"
    /\ requests = 0
    /\ filesWritten = 0
    /\ log = <<>>
    /\ normalized = CHOOSE m \in Models : m.userModifiedSettings = <<>>
    /\ respectUserSettings = ~options.force
    /\ responseWarnings = CHOOSE w \in ResponseWarningChoices : ~w.has
    /\ updated = normalized
    /\ warnings = <<>>
    /\ diffs = <<>>
    /\ pc = "done"
    /\ n = 0
    /\ change = NoChange
    /\ branch = "none"
    /\ before = normalized
    /\ StoreUntouched
    /\ WriterIdle

\* handleOptimize throws: runCli reports the error, nothing more happens.
Fail(error) ==
    /\ stage' = "failed"
    /\ failure' = error
    /\ log' = Append(log, "failed")

Step(to, event) ==
    /\ stage' = to
    /\ log' = Append(log, event)

flowFrame == <<responseWarnings, pc, n, change, branch, before, storeVars,
               options, respectUserSettings, writerVars>>

\* parsed = await parse3mfFile(input)
ParseFile ==
    /\ stage = "start"
    /\ normalized' \in FlowModels
    /\ updated' = normalized'
    /\ Step("parsed", "parsed")
    /\ UNCHANGED <<warnings, diffs, content, llmResponse, failure, requests,
                   filesWritten, flowFrame>>

\* The input file is missing or is no readable project.
ParseFails ==
    /\ stage = "start"
    /\ Fail("Error")
    /\ UNCHANGED <<normalized, updated, warnings, diffs, content, llmResponse,
                   requests, filesWritten, flowFrame>>

\* requestOptimization with config.mockResponsePath: the file's text
ReadMock ==
    /\ stage = "parsed"
    /\ options.mockResponse
    /\ content' \in Contents
    /\ Step("received", "mock")
    /\ UNCHANGED <<normalized, updated, warnings, diffs, llmResponse, failure,
                   requests, filesWritten, flowFrame>>

\* if (!config.apiKey) throw new Error("API key missing...")
MissingApiKey ==
    /\ stage = "parsed"
    /\ ~options.mockResponse
    /\ ~options.apiKey
    /\ Fail("Error")
    /\ UNCHANGED <<normalized, updated, warnings, diffs, content, llmResponse,
                   requests, filesWritten, flowFrame>>

\* client.chat.completions.create(...)
SendRequest ==
    /\ stage = "parsed"
    /\ ~options.mockResponse
    /\ options.apiKey
    /\ requests' = requests + 1
    /\ Step("awaiting", "sent")
    /\ UNCHANGED <<normalized, updated, warnings, diffs, content, llmResponse,
                   failure, filesWritten, flowFrame>>

\* The request fails: throw new Error(`LLM request failed: ...`)
ServiceFails ==
    /\ stage = "awaiting"
    /\ Fail("Error")
    /\ UNCHANGED <<normalized, updated, warnings, diffs, content, llmResponse,
                   requests, filesWritten, flowFrame>>

\* content = completion.choices?.[0]?.message?.content ?? ""
ServiceReplies ==
    /\ stage = "awaiting"
    /\ content' \in Contents
    /\ Step("received", "replied")
    /\ UNCHANGED <<normalized, updated, warnings, diffs, llmResponse, failure,
                   requests, filesWritten, flowFrame>>

\* An invalid response sends the run back to ask the service again.
NextStageAfterValidation_Retry(result) ==
    IF result.error = "none" THEN "validated" ELSE "parsed"

\* try { return parseLlmResponse(content) } catch (error) { ...; throw error }
NextStageAfterValidation(result) ==
    IF result.error = "none" THEN "validated" ELSE "failed"

ValidateResponse ==
    /\ stage = "received"
    /\ \E result \in {parseLlmResponse(content)} :
          /\ llmResponse' = result
          /\ stage' = NextStageAfterValidation(result)
          /\ failure' = result.error
          /\ log' = Append(log, IF result.error = "none" THEN "validated" ELSE "failed")
    /\ UNCHANGED <<normalized, updated, warnings, diffs, content, requests,
                   filesWritten, flowFrame>>

\* const { updated, warnings, diffs } = applyLlmChanges({...})
ApplyResponse ==
    /\ stage = "validated"
    /\ \E result \in {applyLlmChanges(normalized, llmResponse, respectUserSettings)} :
          /\ normalized' = structuredClone(normalized, result.updated)
          /\ IF result.threw
             THEN /\ Fail("TypeError")
                  /\ UNCHANGED <<updated, warnings, diffs>>
             ELSE /\ updated' = result.updated
                  /\ warnings' = result.warnings
                  /\ diffs' = result.diffs
                  /\ Step("applied", "applied")
                  /\ UNCHANGED failure
    /\ UNCHANGED <<content, llmResponse, requests, filesWritten, flowFrame>>

\* A run that writes whatever --dry-run says.
MayWrite_Always(opts) == TRUE

\* if (options.dryRun) return; otherwise the run goes on to write3mf
MayWrite(opts) == ~opts.dryRun

DryRunReturn ==
    /\ stage = "applied"
    /\ ~MayWrite(options)
    /\ Step("done", "dry-run")
    /\ UNCHANGED <<normalized, updated, warnings, diffs, content, llmResponse,
                   failure, requests, filesWritten, flowFrame>>

\* await write3mf(toWrite, outputPath): fs.writeFileSync is its last statement
WriteOutput ==
    /\ stage = "applied"
    /\ MayWrite(options)
    /\ filesWritten' = filesWritten + 1
    /\ Step("done", "written")
    /\ UNCHANGED <<normalized, updated, warnings, diffs, content, llmResponse,
                   failure, requests, flowFrame>>

\* write3mf throws (building the archive or writing the file fails)
WriteFails ==
    /\ stage = "applied"
    /\ MayWrite(options)
    /\ Fail("Error")
    /\ UNCHANGED <<normalized, updated, warnings, diffs, content, llmResponse,
                   requests, filesWritten, flowFrame>>

NextOptimize ==
    \/ ParseFile \/ ParseFails
    \/ ReadMock \/ MissingApiKey \/ SendRequest \/ ServiceFails \/ ServiceReplies
    \/ ValidateResponse \/ ApplyResponse
    \/ DryRunReturn \/ WriteOutput \/ WriteFails

SpecOptimize == InitOptimize /\ [][NextOptimize]_vars

(***************************************************************************)
(* Reading a vendor configuration, changing settings and writing it back:  *)
(* parse3mfBuffer, applied global changes, write3mf.                       *)
(***************************************************************************)
Strings(items) == VArray([i \in 1..Len(items) |-> VStr(items[i])])

\* A configuration parse3mfBuffer accepts (isConfigUseful: it has a layer
\* height), with a key neither mapped nor allow-listed.
BaseConfig ==
    ("layer_height" :> VStr("0.2")) @@ ("machine_start_gcode" :> VStr("G28"))

\* A configuration that has every key the writer writes, with the values the
\* writer gives them when no setting has changed.
FullConfig ==
    [key \in {"layer_height", "initial_layer_print_height"} |-> VStr("0.2")]
    @@ [key \in {"wall_loops"} |-> VStr("2")]
    @@ [key \in {"top_shell_layers", "bottom_shell_layers"} |-> VStr("4")]
    @@ [key \in {"sparse_infill_density"} |-> VStr("15%")]
    @@ [key \in {"sparse_infill_pattern"} |-> VStr("grid")]
    @@ [key \in {"nozzle_temperature", "nozzle_temperature_initial_layer"} |-> VStr("215")]
    @@ [key \in {"eng_plate_temp", "hot_plate_temp", "inner_wall_speed"} |-> VStr("60")]
    @@ [key \in {"fan_max_speed", "first_x_layer_fan_speed", "sparse_infill_speed"}
           |-> VStr("80")]
    @@ [key \in {"enable_support", "brim_width", "raft_layers"} |-> VStr("0")]
    @@ [key \in {"outer_wall_speed"} |-> VStr("40")]
    @@ [key \in {"initial_layer_speed"} |-> VStr("30")]
    @@ [key \in {"nozzle_diameter"} |-> Strings(<<"0.4">>)]
    @@ [key \in {"filament_type"} |-> Strings(<<"PLA">>)]
    @@ [key \in {"default_print_profile"} |-> VStr("0.20mm Standard")]
    @@ [key \in {"machine_start_gcode"} |-> VStr("G28")]

\* Entries a configuration may have besides: key and value.
Variations ==
    {<<"wall_loops", VStr("2")>>,
     <<"wall_loops", Strings(<<"3", "3">>)>>,
     <<"wall_loops", Strings(<<>>)>>,
     <<"sparse_infill_density", VStr("15%")>>,
     <<"sparse_infill_density", Strings(<<"20%", "20%">>)>>,
     <<"nozzle_temperature", VStr("abc")>>,
     <<"nozzle_temperature", VStr("")>>,
     <<"nozzle_temperature", VStr("215")>>,
     <<"nozzle_temperature", Strings(<<"220", "225">>)>>,
     <<"nozzle_temperature_initial_layer", VStr("230")>>,
     <<"eng_plate_temp", VStr("70")>>,
     <<"hot_plate_temp", VStr("75")>>,
     <<"outer_wall_speed", Strings(<<"40", "40">>)>>,
     <<"filament_type", Strings(<<"PLA">>)>>,
     <<"filament_type", Strings(<<"PLA", "PETG">>)>>,
     <<"nozzle_diameter", Strings(<<"0.4">>)>>,
     <<"default_print_profile", VStr("0.20mm Standard")>>,
     <<"brim_width", VStr("5")>>,
     <<"raft_layers", VStr("2")>>,
     <<"travel_speed", VStr("120")>>,
     <<"travel_speed", Strings(<<"120">>)>>,
     <<"travel_speed", Strings(<<"120", "150">>)>>,
     <<"travel_speed", Strings(<<>>)>>,
     <<"different_settings_to_system", Strings(<<"", "", "">>)>>,
     <<"different_settings_to_system", Strings(<<"wall_loops", "nozzle_temperature", "">>)>>,
     <<"different_settings_to_system", Strings(<<"fan_max_speed", "", "">>)>>,
     <<"different_settings_to_system", Strings(<<"outer_wall_speed", "", "">>)>>,
     <<"different_settings_to_system", Strings(<<" wall_loops ; layer_height">>)>>,
     <<"different_settings_to_system", Strings(<<"wall_loops;wall_loops", "", "travel_speed">>)>>}

\* BaseConfig or FullConfig with up to k of the entries.
RECURSIVE ConfigsWith(_)
ConfigsWith(k) ==
    IF k = 0 THEN {BaseConfig, FullConfig}
    ELSE LET fewer == ConfigsWith(k - 1)
         IN fewer \cup {ConfigPut(config, v[1], v[2]) : config \in fewer, v \in Variations}

Configs == ConfigsWith(MaxVariations)

SetTo(parameter, value) ==
    validateChange(RawChange(VStr("global"), NoTarget, VStr(parameter),
                             [newValue |-> value, changeType |-> VStr("absolute")]))

\* Changes of global settings the service may ask for.
WriterChanges ==
    {SetTo("wall_line_count", VNum(4)),
     SetTo("nozzle_temp_c", VNum(240)),
     SetTo("infill_density_percent", VNum(20)),
     SetTo("fan_speed_percent", VNum(50)),
     SetTo("speeds.wall_outer", VNum(50)),
     SetTo("adhesion_type", VStr("brim")),
     SetTo("adhesion_type", VStr("raft")),
     SetTo("adhesion_type", VStr("none")),
     SetTo("travel_speed", VNum(150)),
     SetTo("layer_height_mm", Dyadic(1, 2)),
     SetTo("brim_width", VNum(8)),
     validateChange(RawChange(VStr("global"), NoTarget, VStr("bed_temp_c"),
                              [newValue |-> Dyadic(1, 1),
                               changeType |-> VStr("relative")]))}

InitWriter ==
    /\ ApplyIdle
    /\ StoreUntouched
    /\ FlowIdle
    /\ configData \in Configs
    /\ project = NoProject
    /\ edited = {}
    /\ updatedConfig = EmptyConfig
    /\ touchedKeys = {}
    /\ phase = "read"

\* mergeConfigFromZip and buildNormalized
ParseConfig ==
    /\ phase = "read"
    /\ project' = buildNormalized(applyConfig(configData))
    /\ phase' = "parsed"
    /\ UNCHANGED <<configData, edited, updatedConfig, touchedKeys>>
    /\ UNCHANGED <<applyVars, storeVars, flowVars>>

\* seq without the elements that occurred earlier in it ([...new Set(seq)]).
RECURSIVE Unique(_)
Unique(seq) ==
    IF seq = <<>> THEN <<>>
    ELSE LET front == Unique(SubSeq(seq, 1, Len(seq) - 1))
             last == seq[Len(seq)]
         IN IF \E i \in 1..Len(front) : front[i] = last THEN front
            ELSE Append(front, last)

\* The keys of the groups from position i on, in order.
RECURSIVE ListedFrom(_, _)
ListedFrom(groups, i) ==
    IF i > Len(groups) THEN <<>>
    ELSE (IF groups[i].t # "string" THEN <<>>
          ELSE LET pieces == Split(StringChars(groups[i]), ";")
               IN SelectSeq([j \in 1..Len(pieces) |-> Trim(pieces[j])],
                            LAMBDA key : key # <<>>))
         \o ListedFrom(groups, i + 1)

\* normalized.userModifiedSettings, as buildNormalized takes it from the
\* configuration read.
extractUserModifiedSettings(config) ==
    LET different == ConfigGet(config, "different_settings_to_system")
    IN IF ~IsArray(different) THEN <<>>
       ELSE LET keys == Unique(ListedFrom(different.items, 1))
            IN [i \in 1..Len(keys) |-> StringOf(keys[i])]

\* One applied change of a global setting: applyLlmChanges passes over a
\* change whose parameter is locked.
ChangeSetting ==
    /\ phase = "parsed"
    /\ Cardinality(edited) < MaxEdits
    /\ \E c \in WriterChanges :
          \E outcome \in {applySingleChange(project, c)} :
             /\ ~(/\ respectUserSettings
                  /\ isUserSettingLocked(c.parameter,
                        buildUserModifiedLookup(
                           extractUserModifiedSettings(configData))))
             /\ outcome.branch = "applied"
             /\ project' = outcome.updated
             /\ edited' = edited \cup {c.parameter.s}
    /\ UNCHANGED <<configData, updatedConfig, touchedKeys, phase>>
    /\ UNCHANGED <<applyVars, storeVars, flowVars>>

\* buildConfigFromNormalized(configData ?? {}, normalized) in write3mf
WriteConfig ==
    /\ phase = "parsed"
    /\ \E written \in {buildConfigFromNormalized(configData, project)} :
          /\ updatedConfig' = written.cfg
          /\ touchedKeys' = written.touchedKeys
    /\ phase' = "written"
    /\ UNCHANGED <<configData, project, edited>>
    /\ UNCHANGED <<applyVars, storeVars, flowVars>>

NextWriter == ParseConfig \/ ChangeSetting \/ WriteConfig

SpecWriter == InitWriter /\ [][NextWriter]_vars

(***************************************************************************)
(* Properties                                                              *)
(***************************************************************************)
\* This step is one iteration of the loop; change' is the entry it processed.
IsIteration == pc = "loop" /\ n' = n + 1

\* The iteration ran to its end (it did not throw).
Completed == pc' = "loop"

LockedWarning(parameter) == Warning("userSettingLockedWarning", parameter, Undefined)

\* The parameter equals the entry, or equals it after both are lower-cased
\* and stripped of every character outside [a-z0-9].
MatchesEntry(parameter, entry) ==
    /\ entry.t = "string"
    /\ \/ parameter = entry
       \/ normalizeSettingKey(ToChars(parameter)) = normalizeSettingKey(Chars(entry.s))

MatchesUserModified(c) ==
    \E i \in 1..Len(normalized.userModifiedSettings) :
        MatchesEntry(c.parameter, normalized.userModifiedSettings[i])

\* C1: with lock enforcement enabled, a change of either scope whose parameter
\* matches an entry of userModifiedSettings (exactly or after normalization)
\* changes nothing in the model, emits no diff and adds exactly one
\* locked-setting warning; with enforcement disabled the same change is handled
\* as applySingleChange handles it and no locked-setting warning is added.
C1_LockEnforcement ==
    [][IsIteration /\ MatchesUserModified(change') =>
         IF respectUserSettings
         THEN /\ updated' = updated
              /\ diffs' = diffs
              /\ warnings' = Append(warnings, LockedWarning(change'.parameter))
         ELSE /\ branch' # "locked"
              /\ updated' = applySingleChange(updated, change').updated
              /\ diffs' = diffs \o applySingleChange(updated, change').diff
              /\ warnings' = warnings \o applySingleChange(updated, change').pushed
              /\ \A i \in 1..Len(warnings') : warnings'[i].key # "userSettingLockedWarning"
      ]_vars

\* An object-scope change to wall_line_count was skipped because the user
\* modified "Wall-Line-Count".
C1_Witness ==
    /\ branch = "locked"
    /\ respectUserSettings
    /\ change.scope = VStr("object")
    /\ change.parameter = VStr("wall_line_count")
    /\ normalized.userModifiedSettings = <<VStr("Wall-Line-Count")>>
    /\ updated = before

\* C2: a change whose computed new value strictly equals the current value
\* records no diff, adds no warning and mutates nothing: global settings, the
\* override store (its records included) and the plates stay as they were.
C2_NoOpMutatesNothing ==
    [][IsIteration /\ branch' = "noop" =>
         /\ diffs' = diffs
         /\ warnings' = warnings
         /\ updated' = updated
      ]_vars

\* The keys of the nested speeds object of a container.
SpeedsKeys(container) ==
    IF Get(container, "speeds") = VSpeedsObject THEN DOMAIN container.sp ELSE {}

\* The parameter names a key the global settings have.
NamesGlobalKey(parameter) ==
    /\ parameter.t = "string"
    /\ IF parseSpeedKey(parameter).isSpeed
       THEN parseSpeedKey(parameter).key \in SpeedsKeys(updated.globalProcess)
       ELSE parameter.s \in DOMAIN updated.globalProcess.own

\* C3: the key set of the global process settings and of its speeds
\* sub-object never changes, and a global-scope change whose parameter names
\* no existing key yields no diff and exactly one warning naming the parameter.
C3_NoInventedKeys ==
    [][IsIteration /\ Completed =>
         /\ DOMAIN updated'.globalProcess.own = DOMAIN updated.globalProcess.own
         /\ SpeedsKeys(updated'.globalProcess) = SpeedsKeys(updated.globalProcess)
         /\ (branch' # "locked" /\ change'.scope = VStr("global")
             /\ ~NamesGlobalKey(change'.parameter)) =>
               /\ diffs' = diffs
               /\ Len(warnings') = Len(warnings) + 1
               /\ warnings'[Len(warnings')].parameter = change'.parameter
      ]_vars

\* C4: applyLlmChanges never raises on a response the Response Adapter accepted.
C4_NeverRaises == pc # "threw"

\* C5: a change skipped with a warning (locked, unknown parameter, object not
\* found, unknown parameter for object, non-numeric relative change) leaves the
\* updated model exactly as it was before that change.
C5_SkippedChangeLeavesModel ==
    branch \in {"locked", "unknown", "notfound", "relative"} => updated = before

\* The setting a parameter string addresses: a speeds role (extra path
\* segments ignored) or a top-level key.
Addressed(parameter) ==
    IF parseSpeedKey(parameter).isSpeed
    THEN <<"speeds", parseSpeedKey(parameter).key>>
    ELSE <<parameter.s>>

\* Two diffs are changes to the same parameter of the same scope and target.
SameParameter(d1, d2) ==
    /\ d1.scope = d2.scope
    /\ d1.target = d2.target
    /\ Addressed(d1.parameter) = Addressed(d2.parameter)

\* The value a diff's parameter has in the model, in the diff's scope.
ValueAt(model, d) ==
    IF d.scope = "global" THEN CurrentValue(model.globalProcess, d.parameter)
    ELSE LET read == readObjectOverride(model.perObjectOverrides,
                                        d.target.objectName, d.target.plateIndex)
         IN IF read.found THEN CurrentValue(read.record, d.parameter) ELSE Undefined

\* The base value applyObjectChange / applyGlobalChange computes for a
\* validated change whose target exists: what the (possibly just created)
\* override record gives for the parameter, else what the global settings give.
BaseValue(model, c) ==
    IF c.scope = VStr("global") THEN CurrentValue(model.globalProcess, c.parameter)
    ELSE LET resolved == resolveObjectTarget(c)
             p == findPlate(model.plates, resolved.objectName, resolved.plateIndex)
             store == ensureObjectOverride(model.perObjectOverrides,
                                           resolved.objectName, model.plates[p].index)
             own == CurrentValue(
                        store[makeObjectKey(resolved.objectName, model.plates[p].index)],
                        c.parameter)
         IN IF own = Undefined THEN CurrentValue(model.globalProcess, c.parameter)
            ELSE own

\* C6 (chaining): of two applied changes to the same parameter with none to it
\* in between, the later diff's from is the earlier diff's to.
C6_LaterFromIsEarlierTo ==
    pc # "threw" =>
    \A i, j \in 1..Len(diffs) :
        (/\ i < j
         /\ SameParameter(diffs[i], diffs[j])
         /\ \A k \in (i + 1)..(j - 1) : ~SameParameter(diffs[i], diffs[k]))
        => diffs[j].from = diffs[i].to

\* C6 (last wins): the final value of a parameter is the one written by the
\* last applied change to it.
C6_LastAppliedChangeWins ==
    pc # "threw" =>
    \A i \in 1..Len(diffs) :
        (\A j \in (i + 1)..Len(diffs) : ~SameParameter(diffs[i], diffs[j]))
        => ValueAt(updated, diffs[i]) = diffs[i].to

IsRelativeResult(r, c, d) ==
    /\ r.t = "number"
    /\ r.n * Pow2(c.e + d.e) = c.n * (Pow2(d.e) + d.n) * Pow2(r.e)
    /\ r.e > 0 => r.n % 2 # 0

RelativeWarning(parameter) ==
    Warning("relativeChangeTypeWarning", parameter, Undefined)

\* One step of C7. With everyChangeHasDiff a relative change of numeric values
\* always emits its diff; without it the diff is emitted unless the result is
\* the current value itself.
C7_Step(everyChangeHasDiff) ==
    (IsIteration /\ branch' \in {"applied", "noop", "relative"}) =>
       LET c == BaseValue(updated, change')
           d == change'.newValue
           after == BaseValue(updated', change')
       IN IF change'.changeType = VStr("relative")
          THEN IF IsNumber(c) /\ IsNumber(d)
               THEN /\ IsRelativeResult(after, c, d)
                    /\ warnings' = warnings
                    /\ IF ~everyChangeHasDiff /\ after = c THEN diffs' = diffs
                       ELSE /\ Len(diffs') = Len(diffs) + 1
                            /\ diffs'[Len(diffs')].from = c
                            /\ diffs'[Len(diffs')].to = after
               ELSE /\ warnings' = Append(warnings, RelativeWarning(change'.parameter))
                    /\ after = c
                    /\ diffs' = diffs
          ELSE /\ after = d
               /\ warnings' = warnings

\* C7: a relative change on a numeric current value c with numeric newValue d
\* sets the value to c + c*d and, unless that result is c itself, emits a diff
\* from c to the result (when it is c, no diff is emitted); if c or d is not
\* numeric a relative-change warning is added, the value stays and no diff is
\* emitted; an absolute or unspecified change sets the value to newValue as
\* given.
C7_RelativeAndAbsoluteValues == [][C7_Step(FALSE)]_vars

\* C7 as stated: every relative change of numeric values emits a diff from c
\* to c + c*d.
C7_EveryRelativeChangeEmitsDiff == [][C7_Step(TRUE)]_vars

\* A relative change of -0.5 took a current value of 4 to 2.
C7_Witness ==
    /\ branch = "applied"
    /\ change.changeType = VStr("relative")
    /\ change.newValue = Dyadic(-1, 1)
    /\ BaseValue(before, change) = VNum(4)
    /\ BaseValue(updated, change) = VNum(2)
    /\ diffs[Len(diffs)].from = VNum(4)
    /\ diffs[Len(diffs)].to = VNum(2)

\* The object's override record holds a value of its own for the parameter.
OverrideHoldsValue(model, objectName, plateIndex, parameter) ==
    LET read == readObjectOverride(model.perObjectOverrides, objectName, plateIndex)
    IN /\ read.found
       /\ IF parseSpeedKey(parameter).isSpeed
          THEN parseSpeedKey(parameter).key \in SpeedsKeys(read.record)
          ELSE parameter.s \in DOMAIN read.record.own

\* The settings of the named object of a plate (its first object of that name).
PlateSettings(plate, objectName) ==
    plate.objects[CHOOSE k \in 1..Len(plate.objects) :
                     /\ plate.objects[k].name = objectName
                     /\ \A m \in 1..(k - 1) : plate.objects[m].name # objectName].settings

\* C8: an object-scope change on a parameter the object's override record has
\* no value for works from the global value: an absolute change to a different
\* value yields a diff from the global value to the new one, the override record
\* and the plate-level settings both hold the new value and the global value
\* stays; a parameter unknown at both levels is rejected with an
\* unknown-parameter-for-object warning.
C8_ObjectFallsBackToGlobal ==
    [][(/\ IsIteration /\ Completed
        /\ branch' \notin {"locked", "notfound"}
        /\ change'.scope = VStr("object")
        /\ change'.parameter.t = "string") =>
         LET c == change'
             name == resolveObjectTarget(c).objectName
             plate == updated.plates[findPlate(updated.plates, name,
                                               resolveObjectTarget(c).plateIndex)]
             plateAfter == updated'.plates[findPlate(updated.plates, name,
                                               resolveObjectTarget(c).plateIndex)]
             global == CurrentValue(updated.globalProcess, c.parameter)
         IN ~OverrideHoldsValue(updated, name, plate.index, c.parameter) =>
              IF NamesGlobalKey(c.parameter)
              THEN (c.changeType = VStr("absolute") /\ c.newValue # global) =>
                     /\ diffs' = Append(diffs,
                           formatDiff(c, global, c.newValue, "object",
                                      Target(name, plate.index)))
                     /\ ValueAt(updated', diffs'[Len(diffs')]) = c.newValue
                     /\ PlateSettings(plateAfter, name).has
                     /\ PlateSettings(plateAfter, name).own[c.parameter.s] = c.newValue
                     /\ updated'.globalProcess = updated.globalProcess
              ELSE /\ diffs' = diffs
                   /\ updated'.globalProcess = updated.globalProcess
                   /\ warnings' = Append(warnings,
                         Warning("unknownObjectParameterWarning", c.parameter, name))
      ]_vars

PlateIndices == {VNum(0), VNum(1), VNum(7)}
ObjectNames == {VStr("Cube"), VStr("Benchy"), VStr("Ghost")}

\* C9: makeObjectKey gives two objects of the same name on different known
\* plates different keys, and an object-scope change applied to one of them
\* leaves the record read for the same name on every other plate as it was.
C9_PlateIsolation ==
    [][/\ \A name \in ObjectNames : \A p, q \in PlateIndices :
            p # q => makeObjectKey(name, p) # makeObjectKey(name, q)
       /\ (IsIteration /\ branch' = "applied" /\ change'.scope = VStr("object")) =>
            LET written == diffs'[Len(diffs')].target
            IN \A q \in PlateIndices \ {written.plateIndex} :
                  readObjectOverride(updated'.perObjectOverrides, written.objectName, q)
                    = readObjectOverride(updated.perObjectOverrides, written.objectName, q)
      ]_vars

\* Cube on plate 0 and Cube on plate 1 were both written; each record holds
\* its own value.
C9_Witness ==
    /\ n = 2
    /\ Len(diffs) = 2
    /\ diffs[1].scope = "object" /\ diffs[2].scope = "object"
    /\ diffs[1].target.objectName = diffs[2].target.objectName
    /\ diffs[1].target.plateIndex # diffs[2].target.plateIndex
    /\ diffs[1].parameter = diffs[2].parameter
    /\ diffs[1].to # diffs[2].to
    /\ ValueAt(updated, diffs[1]) = diffs[1].to
    /\ ValueAt(updated, diffs[2]) = diffs[2].to

\* A helper call was made in this step.
IsStoreCall(op) == storeOps' = storeOps + 1 /\ storeOp' = op

\* Every key of the store but `key` maps to what it mapped to before.
OtherKeysUnchanged(key) ==
    /\ DOMAIN overrides' \ {key} = DOMAIN overrides \ {key}
    /\ \A k \in DOMAIN overrides \ {key} : overrides'[k] = overrides[k]

\* C10: ensureObjectOverride is idempotent. For any store and target the call
\* returns the record under the target's key: created as {plateIndex,
\* objectName} with no settings when the store had none, otherwise the record
\* already there, not reset; what was set through a returned reference is what
\* readObjectOverride and a later ensureObjectOverride return; and no other key
\* of the store changes.
C10_EnsureIdempotent ==
    [][LET objectName == storeTarget'.objectName
           plateIndex == storeTarget'.plateIndex
           key == makeObjectKey(objectName, plateIndex)
       IN /\ IsStoreCall("ensure") =>
               /\ held' = Reference("record", key)
               /\ key \in DOMAIN overrides'
               /\ IF key \in DOMAIN overrides
                  THEN overrides'[key] = overrides[key]
                  ELSE overrides'[key] = NewOverride(objectName, plateIndex)
               /\ OtherKeysUnchanged(key)
               /\ ensureObjectOverride(overrides', objectName, plateIndex) = overrides'
               /\ readObjectOverride(overrides', objectName, plateIndex).found
               /\ readObjectOverride(overrides', objectName, plateIndex).record
                     = overrides'[key]
          /\ IsStoreCall("set") =>
               /\ held'.key = key
               /\ \E setting \in StoreSettings, value \in StoreValues :
                     /\ overrides'[key] = Put(overrides[key], setting, value)
                     /\ readObjectOverride(overrides', objectName, plateIndex).record.own[setting]
                           = value
               /\ readObjectOverride(overrides', objectName, plateIndex).record
                     = overrides'[key]
               /\ ensureObjectOverride(overrides', objectName, plateIndex) = overrides'
               /\ OtherKeysUnchanged(key)
      ]_vars

\* parseLlmResponse was called in this step.
IsValidation == stage = "received" /\ stage' # "received"

Absent(v) == v = Undefined

\* The element has no parameter, no newValue, or a scope that is neither
\* global nor object.
EntryFlawed(entry) ==
    \/ entry.kind # "object"
    \/ Absent(entry.raw.parameter)
    \/ Absent(entry.raw.newValue)
    \/ ~Absent(entry.raw.scope) /\ entry.raw.scope \notin {VStr("global"), VStr("object")}

ContentFlawed(c) ==
    \/ c.json # "object"
    \/ c.changesKind # "array"
    \/ \E i \in 1..Len(c.items) : EntryFlawed(c.items[i])

Defaulted(v, default) == IF Absent(v) THEN default ELSE v

\* C11: parseLlmResponse accepts all or nothing. Content that is not JSON,
\* not an object, without a changes array, or with one entry lacking parameter
\* or newValue or having a scope other than global/object is rejected whole
\* with an InvalidLlmResponseError and no change is returned; an accepted
\* response has every change with scope defaulted to global, changeType to
\* absolute, reason to empty and target to null.
C11_AllOrNothing ==
    [][IsValidation =>
         /\ ContentFlawed(content) =>
               /\ failure' = "InvalidLlmResponseError"
               /\ stage' = "failed"
               /\ llmResponse'.changes = <<>>
         /\ failure' = "none" =>
               /\ Len(llmResponse'.changes) = Len(content.items)
               /\ \A i \in 1..Len(content.items) :
                     LET raw == content.items[i].raw
                         out == llmResponse'.changes[i]
                     IN /\ out.scope = Defaulted(raw.scope, VStr("global"))
                        /\ out.changeType = Defaulted(raw.changeType, VStr("absolute"))
                        /\ out.reason = Defaulted(raw.reason, VStr(""))
                        /\ out.target = IF raw.target.present THEN raw.target ELSE NoTarget
                        /\ out.parameter = raw.parameter
                        /\ out.newValue = raw.newValue
      ]_vars

ChangeTypes == {VStr("absolute"), VStr("relative")}

\* C12: a response with an entry whose changeType is neither absolute nor
\* relative is rejected whole by the adapter, so no such change is ever in the
\* response handed to applyLlmChanges.
C12_UnknownChangeTypeRejected ==
    /\ (stage \in {"validated", "applied", "done"}) =>
          \A i \in 1..Len(llmResponse.changes) :
             llmResponse.changes[i].changeType \in ChangeTypes
    /\ (/\ stage \notin {"start", "parsed", "awaiting", "received"}
        /\ \E i \in 1..Len(content.items) :
              /\ content.items[i].kind = "object"
              /\ ~Absent(content.items[i].raw.changeType)
              /\ content.items[i].raw.changeType \notin ChangeTypes) =>
          failure = "InvalidLlmResponseError"

Position(event) == CHOOSE i \in 1..Len(log) : log[i] = event
Happened(event) == \E i \in 1..Len(log) : log[i] = event
Before(a, b) == Happened(a) /\ Happened(b) /\ Position(a) < Position(b)

\* The run failed before it came to writing.
FailedBeforeWrite == failure # "none" /\ ~Happened("applied")

\* C19: the output archive is written only after parsing, the request (or the
\* mock file), response validation and change application all completed
\* without error; when the run fails for missing credentials, a failed service
\* call or an invalid response, or runs with --dry-run, no file is written.
C19_WriteOnlyAfterEverything ==
    /\ filesWritten > 0 =>
          /\ ~options.dryRun
          /\ failure = "none"
          /\ ~Happened("failed")
          /\ Before("parsed", "mock") \/ Before("parsed", "replied")
          /\ Before("mock", "validated") \/ Before("replied", "validated")
          /\ Before("validated", "applied")
          /\ Before("applied", "written")
          /\ llmResponse.error = "none"
    /\ FailedBeforeWrite => filesWritten = 0
    /\ (~options.mockResponse /\ ~options.apiKey) => filesWritten = 0
    /\ options.dryRun => filesWritten = 0

\* A run against the service that applied a change and wrote the archive.
C19_Witness ==
    /\ filesWritten = 1
    /\ log = <<"parsed", "sent", "replied", "validated", "applied", "written">>
    /\ diffs # <<>>

ConfigWritten == phase = "written"

\* The keys of the original configuration that the writer wrote.
WrittenKeys == (touchedKeys \cap DOMAIN configData) \ {"different_settings_to_system"}

\* The written value has the shape of the original: an array of the same
\* length with one value in every element, or a scalar for a scalar.
SameShape(original, written) ==
    IF IsArray(original)
    THEN /\ IsArray(written)
         /\ Len(written.items) = Len(original.items)
         /\ \A i, j \in 1..Len(written.items) : written.items[i] = written.items[j]
    ELSE ~IsArray(written)

\* C13: every key of the original configuration that the writer writes keeps
\* its shape: an array of length N is written as an array of length N whose
\* elements all hold the serialized value, a scalar is written as a scalar.
C13_ShapePreserved ==
    ConfigWritten =>
        \A key \in WrittenKeys : SameShape(configData[key], updatedConfig[key])

\* C14: the writer deletes no key, and a key of the original configuration
\* that is not among the touched keys (the bookkeeping field aside) has its
\* original value.
C14_UntouchedKeysKept ==
    ConfigWritten =>
        /\ DOMAIN configData \subseteq DOMAIN updatedConfig
        /\ \A key \in DOMAIN configData :
              key \notin touchedKeys \cup {"different_settings_to_system"} =>
                 updatedConfig[key] = configData[key]

\* A configuration was written after a change, with a key left untouched and
\* a key of the original given a new value.
C14_Witness ==
    /\ ConfigWritten
    /\ edited # {}
    /\ DOMAIN configData \ (touchedKeys \cup {"different_settings_to_system"}) # {}
    /\ \E key \in WrittenKeys : updatedConfig[key] # configData[key]

\* The written value differs from the original one (array-aware).
Changed(key) ==
    ~areConfigValuesEqual(ConfigGet(configData, key), ConfigGet(updatedConfig, key))

\* The touched keys whose value changed in the write.
ChangedKeys == {key \in touchedKeys \ {"different_settings_to_system"} : Changed(key)}

\* The groups of the bookkeeping field before and after the write, each the
\* set of the keys it lists.
GroupsBefore ==
    parseDifferentSettingsToSystem(ConfigGet(configData, "different_settings_to_system"))

GroupsAfter ==
    parseDifferentSettingsToSystem(ConfigGet(updatedConfig, "different_settings_to_system"))

Sentinel == Chars("compatible_printers")

\* The key is listed in a group other than the filament group before the write.
ListedElsewhere(key) == Chars(key) \in GroupsBefore[1] \cup GroupsBefore[3]

SentinelWhenNonEmpty == GroupsAfter[2] # {} => Sentinel \in GroupsAfter[2]

\* C15 as stated: a non-empty filament group contains the sentinel, and so
\* does the filament group whenever any filament-category key changed.
C15_SentinelOnAnyFilamentChange ==
    ConfigWritten =>
        /\ SentinelWhenNonEmpty
        /\ (\E key \in ChangedKeys : key \in DIFFERENT_SETTINGS_GROUP_KEYS.filament)
              => Sentinel \in GroupsAfter[2]

\* C15: a non-empty filament group of the rewritten field contains the
\* sentinel key compatible_printers; it does whenever a filament-category key
\* changed that the field did not already list in another group.
C15_Sentinel ==
    ConfigWritten =>
        /\ SentinelWhenNonEmpty
        /\ (\E key \in ChangedKeys :
               /\ key \in DIFFERENT_SETTINGS_GROUP_KEYS.filament
               /\ ~ListedElsewhere(key))
              => Sentinel \in GroupsAfter[2]

\* A filament-category key changed; the sentinel was neither touched nor
\* listed before, and the filament group has it.
C15_Witness ==
    /\ ConfigWritten
    /\ edited # {}
    /\ \E key \in ChangedKeys : key \in DIFFERENT_SETTINGS_GROUP_KEYS.filament
    /\ "compatible_printers" \notin touchedKeys
    /\ Sentinel \notin GroupsBefore[2]
    /\ Sentinel \in GroupsAfter[2]

\* The key is listed in some group before the write.
Listed(key) == \E g \in 1..3 : Chars(key) \in GroupsBefore[g]

\* The group a changed key belongs to: the one that lists it before the
\* write, else the one of its category, else the print group.
ExpectedGroup(key) ==
    IF Listed(key) THEN CHOOSE g \in 1..3 : Chars(key) \in GroupsBefore[g]
    ELSE IF key \in DIFFERENT_SETTINGS_GROUP_KEYS.print THEN 1
    ELSE IF key \in DIFFERENT_SETTINGS_GROUP_KEYS.filament THEN 2
    ELSE IF key \in DIFFERENT_SETTINGS_GROUP_KEYS.printer THEN 3
    ELSE 1

\* The characters are keys joined by semicolons, in strictly increasing
\* order of their code units (sorted, none twice), or there are none.
IsSortedKeyList(cs) ==
    \/ cs = <<>>
    \/ LET pieces == Split(cs, ";")
       IN /\ \A i \in 1..Len(pieces) : pieces[i] # <<>> /\ Trim(pieces[i]) = pieces[i]
          /\ \A i \in 1..(Len(pieces) - 1) : CharsLess(pieces[i], pieces[i + 1])

ConfigParsed == phase = "parsed" /\ edited = {}

\* What the vendor key parses to as a number, after unwrapSingle.
ParsedNumber(key) == parseNumber(unwrapSingle(ConfigGet(configData, key)))

\* The canonical value two vendor keys leave for the target key they share.
FirstParsed(firstKey, secondKey, targetKey) ==
    IF ~IsNullish(ParsedNumber(firstKey)) THEN ParsedNumber(firstKey)
    ELSE IF ~IsNullish(ParsedNumber(secondKey)) THEN ParsedNumber(secondKey)
    ELSE DEFAULT_GLOBAL_PROCESS[targetKey]

\* C17: of the vendor keys that map to one canonical key (nozzle_temperature,
\* nozzle_temperature_initial_layer -> nozzle_temp_c; eng_plate_temp,
\* hot_plate_temp -> bed_temp_c) the first in declaration order that parses
\* to a non-null value gives the canonical value; a later one is ignored
\* whatever it holds, and one that is absent or does not parse lets the next
\* one through.
C17_FirstMappingWins ==
    ConfigParsed =>
        /\ Get(project.globalProcess, "nozzle_temp_c")
              = FirstParsed("nozzle_temperature", "nozzle_temperature_initial_layer",
                            "nozzle_temp_c")
        /\ Get(project.globalProcess, "bed_temp_c")
              = FirstParsed("eng_plate_temp", "hot_plate_temp", "bed_temp_c")

\* Both keys of a pair parse, to different values, and the first one's is the
\* canonical value.
C17_Witness ==
    /\ ConfigParsed
    /\ ConfigGet(configData, "nozzle_temperature") = Strings(<<"220", "225">>)
    /\ ConfigGet(configData, "nozzle_temperature_initial_layer") = VStr("230")
    /\ Get(project.globalProcess, "nozzle_temp_c") = VNum(220)

(***************************************************************************)
(* Reading and writing back                                                *)
(***************************************************************************)
\* No applied change bears on the allow-listed key: none names it, and none
\* sets the adhesion type the brim and raft keys are written from.
NotEdited(key) ==
    /\ key \notin edited
    /\ key \in {"brim_width", "raft_layers"} => "adhesion_type" \notin edited

\* C18: an allow-listed pass-through key of the vendor configuration that no
\* applied change bears on is written back with the value it had, a scalar as
\* well as an array of any length.
C18_PassThroughRoundTrip ==
    ConfigWritten =>
        \A key \in ALLOWED_EXTRA_CONFIG_KEYS \cap DOMAIN configData :
            NotEdited(key) => updatedConfig[key] = configData[key]

\* The position of the plate an object-scope target names: with a plate index
\* given, the first plate of that index if it holds an object of the name;
\* without one, the first plate that holds an object of the name; 0 if none.
NamedPlate(plates, objectName, given) ==
    LET holding == {p \in 1..Len(plates) :
                       \E k \in 1..Len(plates[p].objects) :
                           plates[p].objects[k].name = objectName}
        eligible == IF IsNullish(given) THEN holding
                    ELSE {p \in holding : plates[p].index = given}
    IN IF eligible = {} THEN 0
       ELSE CHOOSE p \in eligible : \A q \in eligible : p <= q

\* C21: an object-scope change resolves its target to the plate of the given
\* index if that plate holds an object of the target name, or with no index
\* given to the first plate holding one; the override record written and the
\* diff's target carry that plate's index, and with no such plate an
\* object-not-found warning is added and the change is skipped.
C21_TargetResolution ==
    [][(IsIteration /\ branch' # "locked" /\ change'.scope = VStr("object")) =>
         LET c == change'
             name == resolveObjectTarget(c).objectName
             p == NamedPlate(updated.plates, name, c.target.plateIndex)
         IN IF p = 0
            THEN /\ warnings' = Append(warnings,
                        Warning("objectNotFoundWarning", c.parameter, name))
                 /\ diffs' = diffs
                 /\ updated' = updated
            ELSE /\ branch' # "notfound"
                 /\ branch' = "applied" =>
                      LET index == updated.plates[p].index
                          key == makeObjectKey(name, index)
                      IN /\ diffs'[Len(diffs')].target = Target(name, index)
                         /\ key \in DOMAIN updated'.perObjectOverrides
                         /\ updated'.perObjectOverrides[key].own["plateIndex"] = index
                         /\ updated'.perObjectOverrides[key].own["objectName"] = name
      ]_vars

\* The plate-level settings of the object a diff names, as a settings object.
PlateView(model, d) ==
    LET plate == model.plates[CHOOSE p \in 1..Len(model.plates) :
                                 model.plates[p].index = d.target.plateIndex]
        settings == PlateSettings(plate, d.target.objectName)
    IN [own |-> IF settings.has THEN settings.own ELSE EmptyMap, sp |-> EmptyMap]

\* C22: the override store and the plate-level settings agree: for every
\* parameter an applied object-scope change wrote, top-level or speeds.<role>,
\* the value it addresses in the object's override record is the value it
\* addresses in the object's plate-level settings.
C22_StoreMatchesPlateView ==
    \A i \in 1..Len(diffs) :
        diffs[i].scope = "object" =>
            CurrentValue(PlateView(updated, diffs[i]), diffs[i].parameter)
                = ValueAt(updated, diffs[i])

\* The adhesion type the configuration read stands for, where the spec names
\* one: raft for a positive raft_layers, else brim for a positive brim_width.
AdhesionOf(config) ==
    LET IsPositive(key) ==
            LET number == parseNumber(unwrapSingle(ConfigGet(config, key)))
            IN IsNumber(number) /\ number # VNum(0) /\ Positive(number)
    IN IF IsPositive("raft_layers") THEN VStr("raft")
       ELSE IF IsPositive("brim_width") THEN VStr("brim")
       ELSE Undefined

\* The value the writer takes for an adhesion key it keeps: the one the
\* configuration read has, else the default.
ExistingOr(key, default) ==
    IF IsNullish(ConfigGet(configData, key)) THEN VStr(default)
    ELSE ConfigGet(configData, key)

\* C23: adhesion is derived both ways. Parsed: a positive raft_layers gives
\* adhesion_type raft, before a positive brim_width, which alone gives brim.
\* Written: raft writes raft_layers from the existing value or "1" and
\* brim_width "0"; brim writes brim_width from the existing value or "5" and
\* raft_layers "0"; any other adhesion_type writes "0" to both.
C23_AdhesionDerived ==
    /\ (phase \in {"parsed", "written"} /\ "adhesion_type" \notin edited
        /\ AdhesionOf(configData) # Undefined) =>
          Get(project.globalProcess, "adhesion_type") = AdhesionOf(configData)
    /\ ConfigWritten =>
          LET adhesionType == Get(project.globalProcess, "adhesion_type")
          IN /\ updatedConfig["raft_layers"] =
                   IF adhesionType = VStr("raft") THEN ExistingOr("raft_layers", "1")
                   ELSE VStr("0")
             /\ updatedConfig["brim_width"] =
                   IF adhesionType = VStr("brim") THEN ExistingOr("brim_width", "5")
                   ELSE VStr("0")

\* A configuration with raft layers and a brim was read as raft and written
\* with its raft layers and no brim.
C23_Witness ==
    /\ ConfigWritten
    /\ Get(project.globalProcess, "adhesion_type") = VStr("raft")
    /\ edited = {}
    /\ ConfigGet(configData, "raft_layers") = VStr("2")
    /\ ConfigGet(configData, "brim_width") = VStr("5")
    /\ updatedConfig["raft_layers"] = VStr("2")
    /\ updatedConfig["brim_width"] = VStr("0")

EngineWarnings(list) ==
    SubSeq(list, Len(responseWarnings.list) + 1, Len(list))

C26_RecordsKeepIdentity ==
    \A key \in DOMAIN updated.perObjectOverrides :
        LET record == updated.perObjectOverrides[key]
        IN /\ key = makeObjectKey(Get(record, "objectName"), Get(record, "plateIndex"))
           /\ \E p \in 1..Len(updated.plates) :
                 updated.plates[p].index = Get(record, "plateIndex")

\* The vendor keys the configuration read lists as changed away from the
\* system profile, spelled out.
ListedKeys(config) ==
    LET listed == extractUserModifiedSettings(config)
    IN {StringChars(listed[i]) : i \in 1..Len(listed)}

\* C27: with lock enforcement on, a setting whose vendor key the archive
\* lists in different_settings_to_system is never edited: every change to
\* the canonical parameter that key maps to (layer_height_mm for
\* layer_height, wall_line_count for wall_loops, speeds.wall_outer for
\* outer_wall_speed, ...) is passed over.
C27_ListedSettingsKept ==
    respectUserSettings =>
        /\ \A i \in 1..Len(GLOBAL_PROCESS_MAPPINGS) :
              Chars(GLOBAL_PROCESS_MAPPINGS[i].configKey) \in ListedKeys(configData)
                  => GLOBAL_PROCESS_MAPPINGS[i].targetKey \notin edited
        /\ \A i \in 1..Len(SPEED_MAPPINGS) :
              Chars(SPEED_MAPPINGS[i].configKey) \in ListedKeys(configData)
                  => \A parameter \in edited :
                        Chars(parameter) #
                            Chars("speeds.") \o Chars(SPEED_MAPPINGS[i].speedKey)

\* C28: a configuration parsed and written back with no change applied has a
\* different_settings_to_system field that lists, in each of its three
\* groups, exactly the keys the original field listed there: the write marks
\* no vendor key as newly modified.
C28_NoChangeNothingListed ==
    (ConfigWritten /\ edited = {}) =>
        \A index \in 1..3 : GroupsAfter[index] = GroupsBefore[index]

\* The global process settings read from the written configuration: what
\* mapConfigToSettings finds in it, the defaults of buildGlobalProcess filling
\* what it leaves out.
Reparsed == buildNormalized(applyConfig(updatedConfig)).globalProcess

\* The parameter reads back with the value the project holds for it; a
\* pass-through key, which the file keeps as text, with that number.
ReadsBack(parameter) ==
    LET inProject == CurrentValue(project.globalProcess, VStr(parameter))
        inFile == CurrentValue(Reparsed, VStr(parameter))
    IN \/ inFile = inProject
       \/ /\ parameter \in ALLOWED_EXTRA_CONFIG_KEYS
          /\ parseNumber(unwrapSingle(inFile)) = inProject

\* C29: a global parameter the writer handles (a mapped one, a speeds role,
\* adhesion_type or an allow-listed pass-through key such as brim_width) that
\* an applied change has set reads back, from the written configuration,
\* with the value the change left in the project.
C29_AppliedChangesReadBack ==
    ConfigWritten => \A parameter \in edited : ReadsBack(parameter)

\* C30: an iteration of applyLlmChanges on an object-scope change leaves the
\* global process settings, the override record of every other object and
\* the plate-level settings of every other object as they were; an iteration
\* on a global-scope change leaves the override store and every plate as
\* they were.
C30_ScopesIsolated ==
    [][IsIteration =>
         IF change'.scope = VStr("object")
         THEN LET name == resolveObjectTarget(change').objectName
                  p == NamedPlate(updated.plates, name, change'.target.plateIndex)
              IN /\ updated'.globalProcess = updated.globalProcess
                 /\ \A key \in DOMAIN updated.perObjectOverrides :
                       (p = 0 \/ key # makeObjectKey(name, updated.plates[p].index)) =>
                           /\ key \in DOMAIN updated'.perObjectOverrides
                           /\ updated'.perObjectOverrides[key]
                                 = updated.perObjectOverrides[key]
                 /\ Len(updated'.plates) = Len(updated.plates)
                 /\ \A q \in 1..Len(updated.plates) :
                       /\ Len(updated'.plates[q].objects) = Len(updated.plates[q].objects)
                       /\ \A k \in 1..Len(updated.plates[q].objects) :
                             (q # p \/ updated.plates[q].objects[k].name # name) =>
                                 updated'.plates[q].objects[k] = updated.plates[q].objects[k]
         ELSE /\ updated'.perObjectOverrides = updated.perObjectOverrides
              /\ updated'.plates = updated.plates
      ]_vars

\* An object-scope change and then a global-scope change were applied: the
\* override store and the global settings both differ from the input's.
C30_Witness ==
    /\ Len(diffs) = 2
    /\ diffs[1].scope = "object"
    /\ diffs[2].scope = "global"
    /\ updated.perObjectOverrides # normalized.perObjectOverrides
    /\ updated.plates # normalized.plates
    /\ updated.globalProcess # normalized.globalProcess

=============================================================================
